---- MODULE Spec2Model ----
(***************************************************************************)
(* Model of elfpy/data/acquire_data.py: main(), the loop that tails the    *)
(* chain, reads the pool state and the transactions of every new block     *)
(* and writes them to postgres and to the json snapshots; and of           *)
(* agent0/hyperdrive/policies/arbitrage.py: ArbitragePolicy.action; and of *)
(* the price utilities exercised by tests/utils/test_price_utils.py; and of *)
(* agent0/bin/checkpoint_bot.py: main(), the loop that mints a checkpoint  *)
(* in the second half of every checkpoint period.                          *)
(***************************************************************************)
EXTENDS Integers, Sequences, FiniteSets, TLC

VARIABLES
    start_block,            \* main's argument (line 25)
    lookback_block_limit,   \* main's argument (line 26)
    pc,                     \* position of main
    err,                    \* exception that left main ("" while it runs)
    block_number,           \* line 50, 54, 80
    latest_block_number,    \* line 51, 75
    block_int,              \* the for loop's variable (line 79)
    block_pool_info,        \* line 60, 96
    pool_info,              \* line 57: list of PoolInfo
    transaction_info,       \* line 69
    config_file,            \* hyperdrive_config.json
    pool_info_file,         \* hyperdrive_pool_info.json
    transaction_info_file,  \* hyperdrive_transactions.json
    store,                  \* rows of the postgres pool info table
    trace,                  \* calls made and warnings logged, in order
    failures,               \* ValueErrors raised so far by get_block_pool_info
    restarts,               \* times main was started again
    wallet,                 \* ArbitragePolicy.action's argument: longs and shorts
    interface,              \* its argument: fixed_rate and current_block_time
    policy_config,          \* ArbitragePolicy.policy_config (line 74)
    action_result,          \* what ArbitragePolicy.action returned
    price_pc,               \* position of a price utility test
    price,                  \* the price argument of calc_apr_from_spot_price
    time_remaining,         \* the time_remaining argument, in quarters of a year
    apr,                    \* the apr returned, or the apr argument
    spot_price,             \* what calc_spot_price_from_apr returned
    price_err,              \* exception raised by a price utility ("" if none)
    bot_pc,                 \* position of the checkpoint bot's main
    bot_err,                \* exception that left the bot ("" while it runs)
    chain_time,             \* timestamp of the chain's latest block
    hyperdrive_contract,    \* getCheckpoint: the checkpoint of every time
    checkpoint_duration,    \* checkpoint_bot.py line 105
    block_time,             \* line 63-67
    block_timestamp_interval, \* line 69-73
    timestamp,              \* line 120
    checkpoint_portion_elapsed, \* line 123
    checkpoint_time,        \* line 124
    need_checkpoint,        \* line 125
    checkpoint_doesnt_exist, \* line 126
    sleep_duration,         \* line 159, 161: a fraction
    adjusted_sleep_duration, \* line 163: a fraction
    submitted,              \* checkpoint times the bot sent a transaction for
    polls                   \* timestamps the bot read, in order

\* the variables of main
main_vars == <<start_block, lookback_block_limit, pc, err, block_number,
               latest_block_number, block_int, block_pool_info, pool_info,
               transaction_info, config_file, pool_info_file,
               transaction_info_file, store, trace, failures, restarts>>

\* the variables of ArbitragePolicy.action
policy_vars == <<wallet, interface, policy_config, action_result>>

\* the variables of the price utility tests
price_vars == <<price_pc, price, time_remaining, apr, spot_price, price_err>>

\* the variables of the checkpoint bot
checkpoint_vars == <<bot_pc, bot_err, chain_time, hyperdrive_contract,
                     checkpoint_duration, block_time, block_timestamp_interval,
                     timestamp, checkpoint_portion_elapsed, checkpoint_time,
                     need_checkpoint, checkpoint_doesnt_exist, sleep_duration,
                     adjusted_sleep_duration, submitted, polls>>

\* what a step of main leaves alone
outside_main == <<policy_vars, price_vars, checkpoint_vars>>

\* what a call of ArbitragePolicy.action leaves alone
outside_policy == <<main_vars, price_vars, checkpoint_vars>>

\* what a price utility leaves alone
outside_price == <<main_vars, policy_vars, checkpoint_vars>>

\* what a step of the checkpoint bot leaves alone
outside_checkpoint == <<main_vars, policy_vars, price_vars>>

vars == <<main_vars, policy_vars, price_vars, checkpoint_vars>>

----------------------------------------------------------------------------
(* Bounds of the model *)

\* highest block number the chain reaches
MaxBlock == 4
\* ValueErrors get_block_pool_info raises in one run of main
MaxFailures == 2
\* restarts of main after it was killed or left by an exception
MaxRestarts == 1

(* Program constants *)

\* line 131
LOOKBACK_BLOCK_LIMIT == 1000

\* no file written yet
NoFile == [exists |-> FALSE, data |-> <<>>]
\* no PoolInfo read yet
NoPoolInfo == [blockNumber |-> -1, truthy |-> FALSE]

----------------------------------------------------------------------------
(* Helpers *)

\* the block numbers of a list of PoolInfo
BlockNumbers(infos) == [i \in DOMAIN infos |-> infos[i].blockNumber]

\* the set of elements of a sequence
Range(s) == {s[i] : i \in DOMAIN s}

\* how often x is in s
Count(s, x) == Cardinality({i \in DOMAIN s : s[i] = x})

\* blocks of the trace entries of one kind, in order
Blocks(tr, kind) ==
    LET IsKind(e) == e[1] = kind
        sel == SelectSeq(tr, IsKind)
    IN [i \in DOMAIN sel |-> sel[i][2]]

\* the set of blocks with a trace entry of one kind
BlockSet(tr, kind) == {tr[i][2] : i \in {j \in DOMAIN tr : tr[j][1] = kind}}

----------------------------------------------------------------------------
(* The chain and the services main talks to *)

\* latest-block readings web3.eth.get_block_number() may return
Readings == 0..MaxBlock
\* blocks for which get_block_pool_info may raise ValueError
Flaky == {1, 3}
\* blocks for which get_block_pool_info may return a falsy PoolInfo
Falsy == {2}
\* start_block arguments main is started with
StartBlocks == {-3, 0, 1, 3}
\* lookback_block_limit arguments main is started with
LookbackLimits == {0, 1, 2}

\* PoolInfo values get_block_pool_info may return for block b
PoolInfos(b, falsy) ==
    {[blockNumber |-> b, truthy |-> t] :
        t \in IF b \in falsy THEN {TRUE, FALSE} ELSE {TRUE}}

\* numbers of protocol transactions block b may hold
TxCounts(b) == IF b = 1 THEN {0, 1} ELSE {b % 3}

\* the n transactions fetch_transactions_for_block returns for block b
Transactions(b, n) == [i \in 1..n |-> [blockNumber |-> b, index |-> i]]

\* add_pool_infos as a plain insert: every PoolInfo handed in is a new row
AddPoolInfosInsert(infos, rows) == rows \o infos

\* postgres.add_pool_infos: one row per blockNumber, the last write wins
RECURSIVE add_pool_infos(_, _)
add_pool_infos(infos, rows) ==
    IF infos = <<>> THEN rows
    ELSE LET info == Head(infos)
             hit == {i \in DOMAIN rows : rows[i].blockNumber = info.blockNumber}
             put == IF hit = {}
                    THEN Append(rows, info)
                    ELSE [i \in DOMAIN rows |-> IF i \in hit THEN info ELSE rows[i]]
         IN add_pool_infos(Tail(infos), put)

\* the trace entries of handing infos to the store
RECURSIVE StoreEntries(_)
StoreEntries(infos) ==
    IF infos = <<>> THEN <<>>
    ELSE <<<<"store", Head(infos).blockNumber>>>> \o StoreEntries(Tail(infos))

----------------------------------------------------------------------------
(* main, lines 43-70: startup *)

\* line 53 with >= for >: a start exactly at the limit is clamped too
StartPastLookbackGe(latest, start, limit) == (latest - start) >= limit

\* line 53: the requested start is further back than the lookback window
StartPastLookback(latest, start, limit) == (latest - start) > limit

\* lines 50-54: the block main starts at
StartCursor(latest, start, limit) ==
    IF StartPastLookback(latest, start, limit) THEN latest - limit ELSE start

\* line 84 with >= for >: the block exactly at the limit is skipped too
BlockPastLookbackGe(latest, b, limit) == (latest - b) >= limit

\* line 84: block b is further behind latest than the lookback window
BlockPastLookback(latest, b, limit) == (latest - b) > limit

\* line 79 starting the range at block_number: the cursor block is done again
RangeFirstAtCursor(cursor) == cursor

\* line 79 starting the range at block_number + 2: a block is left out
RangeFirstPlusTwo(cursor) == cursor + 2

\* line 79: first block of range(block_number + 1, latest_block_number + 1)
RangeFirst(cursor) == cursor + 1

\* line 79: last block of range(block_number + 1, latest_block_number + 1)
RangeLast(latest) == latest

\* line 77 with >= for >: a reading equal to block_number starts the for loop
NewBlockGe(latest, cursor) == latest >= cursor

\* line 77: there is a block after block_number
NewBlock(latest, cursor) == latest > cursor

\* open(..., mode="a"): the dump is added to what the file holds
WriteFileAppend(old, data) == [exists |-> TRUE, data |-> old.data \o data]

\* lines 47-48, 64-65, 114-118: open(..., mode="w") and json.dump: the file
\* holds the dumped data and nothing of what it held before
WriteFile(old, data) == [exists |-> TRUE, data |-> data]

\* line 112 putting the new records in front of the list
ExtendFront(list, items) == items \o list

\* line 112: list.extend
Extend(list, items) == list \o items

\* no policy was constructed and its action was never called
NoWallet == [longs |-> <<>>, shorts |-> <<>>]
NoInterface == [fixed_rate |-> 0, current_block_time |-> 0]
NoConfig == [trade_amount |-> 0, high_fixed_rate_thresh |-> 0,
             low_fixed_rate_thresh |-> 0]
NotReturned == [returned |-> FALSE, action_list |-> <<>>, done |-> FALSE]

\* no ArbitragePolicy is asked for its action
PolicyIdle ==
    /\ wallet = NoWallet
    /\ interface = NoInterface
    /\ policy_config = NoConfig
    /\ action_result = NotReturned

\* a number not given or not computed yet
NoNumber == [num |-> 0, den |-> 1]

\* no price utility is called
PriceIdle ==
    /\ price_pc = "idle"
    /\ price = NoNumber
    /\ time_remaining = 0
    /\ apr = NoNumber
    /\ spot_price = NoNumber
    /\ price_err = ""

\* no checkpoint bot runs
CheckpointIdle ==
    /\ bot_pc = "idle"
    /\ bot_err = ""
    /\ chain_time = 0
    /\ hyperdrive_contract = <<>>
    /\ checkpoint_duration = 0
    /\ block_time = 0
    /\ block_timestamp_interval = 0
    /\ timestamp = 0
    /\ checkpoint_portion_elapsed = 0
    /\ checkpoint_time = 0
    /\ need_checkpoint = FALSE
    /\ checkpoint_doesnt_exist = FALSE
    /\ sleep_duration = NoNumber
    /\ adjusted_sleep_duration = NoNumber
    /\ submitted = <<>>
    /\ polls = <<>>

\* main runs alone
OutsideMainIdle == PolicyIdle /\ PriceIdle /\ CheckpointIdle

\* what every start of main sets up, whatever is on disk and in the store
Started(start, limit) ==
    /\ start_block = start
    /\ lookback_block_limit = limit
    /\ pc = "config"
    /\ err = ""
    /\ block_number = start
    /\ latest_block_number = 0
    /\ block_int = 0
    /\ block_pool_info = NoPoolInfo
    /\ pool_info = <<>>
    /\ transaction_info = <<>>
    /\ failures = 0

Init ==
    /\ \E start \in StartBlocks, limit \in LookbackLimits : Started(start, limit)
    /\ config_file = NoFile
    /\ pool_info_file = NoFile
    /\ transaction_info_file = NoFile
    /\ store = <<>>
    /\ trace = <<>>
    /\ restarts = 0
    /\ OutsideMainIdle

\* lines 43-48: fetch the pool config and write it
WriteConfig ==
    /\ pc = "config"
    /\ config_file' = WriteFile(config_file, <<"config">>)
    /\ trace' = Append(trace, <<"config", 0>>)
    /\ pc' = "start"
    /\ UNCHANGED <<start_block, lookback_block_limit, err, block_number,
                   latest_block_number, block_int, block_pool_info, pool_info,
                   transaction_info, pool_info_file, transaction_info_file,
                   store, failures, restarts>>
    /\ UNCHANGED outside_main

\* lines 50-58: clamp the start block to the lookback window
ClampStart(readings) ==
    /\ pc = "start"
    /\ \E latest \in readings :
        /\ latest_block_number' = latest
        /\ block_number' = StartCursor(latest, start_block, lookback_block_limit)
        /\ trace' = IF StartPastLookback(latest, start_block, lookback_block_limit)
                    THEN Append(trace, <<"warn_clamp", latest - lookback_block_limit>>)
                    ELSE trace
    /\ pool_info' = <<>>
    /\ pc' = "init_get"
    /\ UNCHANGED <<start_block, lookback_block_limit, err, block_int,
                   block_pool_info, transaction_info, config_file, pool_info_file,
                   transaction_info_file, store, failures, restarts>>
    /\ UNCHANGED outside_main

\* lines 60-61: read the pool state of the start block; no try around it
InitGetPoolInfo(flaky, falsy) ==
    /\ pc = "init_get"
    /\ \/ /\ \E info \in PoolInfos(block_number, falsy) :
                /\ block_pool_info' = info
                /\ pool_info' = Append(pool_info, info)
          /\ trace' = Append(trace, <<IF block_pool_info'.truthy
                                      THEN "state" ELSE "state_falsy",
                                      block_number>>)
          /\ pc' = "init_file"
          /\ UNCHANGED <<err, failures>>
       \/ /\ block_number \in flaky
          /\ failures < MaxFailures
          /\ failures' = failures + 1
          /\ trace' = Append(trace, <<"state_err", block_number>>)
          /\ pc' = "exited"
          /\ err' = "ValueError"
          /\ UNCHANGED <<block_pool_info, pool_info>>
    /\ UNCHANGED <<start_block, lookback_block_limit, block_number,
                   latest_block_number, block_int, transaction_info, config_file,
                   pool_info_file, transaction_info_file, store, restarts>>
    /\ UNCHANGED outside_main

\* lines 64-65: write the pool info snapshot
InitWriteFile ==
    /\ pc = "init_file"
    /\ pool_info_file' = WriteFile(pool_info_file, pool_info)
    /\ trace' = Append(trace, <<"file_pool", block_number>>)
    /\ pc' = "init_store"
    /\ UNCHANGED <<start_block, lookback_block_limit, err, block_number,
                   latest_block_number, block_int, block_pool_info, pool_info,
                   transaction_info, config_file, transaction_info_file, store,
                   failures, restarts>>
    /\ UNCHANGED outside_main

\* lines 67-70: hand the pool info to postgres, start the transaction list
InitStore ==
    /\ pc = "init_store"
    /\ \/ /\ store' = add_pool_infos(pool_info, store)
          /\ trace' = trace \o StoreEntries(pool_info)
          /\ transaction_info' = <<>>
          /\ pc' = "poll"
          /\ UNCHANGED err
       \/ /\ trace' = Append(trace, <<"store_err", block_number>>)
          /\ pc' = "exited"
          /\ err' = "StoreError"
          /\ UNCHANGED <<store, transaction_info>>
    /\ UNCHANGED <<start_block, lookback_block_limit, block_number,
                   latest_block_number, block_int, block_pool_info, pool_info,
                   config_file, pool_info_file, transaction_info_file, failures,
                   restarts>>
    /\ UNCHANGED outside_main

----------------------------------------------------------------------------
(* main, lines 74-119: the polling loop *)

\* lines 75-79, 119: read the latest block; a new block starts the for loop,
\* no new block leaves only the sleep of line 119 before the next reading
Poll(readings) ==
    /\ pc = "poll"
    /\ \E latest \in readings :
        /\ latest_block_number' = latest
        /\ IF NewBlock(latest, block_number)
           THEN /\ block_int' = RangeFirst(block_number)
                /\ pc' = "for"
           ELSE /\ pc' = "poll"
                /\ UNCHANGED block_int
    /\ UNCHANGED <<start_block, lookback_block_limit, err, block_number,
                   block_pool_info, pool_info, transaction_info, config_file,
                   pool_info_file, transaction_info_file, store, trace, failures,
                   restarts>>
    /\ UNCHANGED outside_main

\* lines 79-90: next block of the range; skip it when it is past the lookback limit
NextBlock ==
    /\ pc = "for"
    /\ IF block_int > RangeLast(latest_block_number)
       THEN /\ pc' = "file_pool"
            /\ UNCHANGED <<block_number, block_int, trace>>
       ELSE /\ block_number' = block_int
            /\ IF BlockPastLookback(latest_block_number, block_int, lookback_block_limit)
               THEN /\ trace' = Append(trace, <<"warn_skip", block_int,
                                                 latest_block_number>>)
                    /\ block_int' = block_int + 1
                    /\ pc' = "for"
               ELSE /\ pc' = "get"
                    /\ UNCHANGED <<block_int, trace>>
    /\ UNCHANGED <<start_block, lookback_block_limit, err, latest_block_number,
                   block_pool_info, pool_info, transaction_info, config_file,
                   pool_info_file, transaction_info_file, store, failures, restarts>>
    /\ UNCHANGED outside_main

\* lines 94-103 with break for continue in the except branch: after a
\* ValueError the loop goes on with the PoolInfo of the block before
GetBlockPoolInfoBreak(flaky, falsy) ==
    /\ pc = "get"
    /\ \/ /\ \E info \in PoolInfos(block_number, falsy) : block_pool_info' = info
          /\ trace' = Append(trace, <<IF block_pool_info'.truthy
                                      THEN "state" ELSE "state_falsy",
                                      block_number>>)
          /\ pc' = "store"
          /\ UNCHANGED failures
       \/ /\ block_number \in flaky
          /\ failures < MaxFailures
          /\ failures' = failures + 1
          /\ trace' = trace \o <<<<"state_err", block_number>>,
                                 <<"warn_retry", block_number>>>>
          /\ pc' = "store"
          /\ UNCHANGED block_pool_info
    /\ UNCHANGED <<start_block, lookback_block_limit, err, block_number,
                   latest_block_number, block_int, pool_info, transaction_info,
                   config_file, pool_info_file, transaction_info_file, store,
                   restarts>>
    /\ UNCHANGED outside_main

\* lines 94-103 giving up after a ValueError: the loop goes on with the next
\* block of the range
GetBlockPoolInfoGiveUp(flaky, falsy) ==
    /\ pc = "get"
    /\ \/ /\ \E info \in PoolInfos(block_number, falsy) : block_pool_info' = info
          /\ trace' = Append(trace, <<IF block_pool_info'.truthy
                                      THEN "state" ELSE "state_falsy",
                                      block_number>>)
          /\ pc' = "store"
          /\ UNCHANGED <<failures, block_int>>
       \/ /\ block_number \in flaky
          /\ failures < MaxFailures
          /\ failures' = failures + 1
          /\ trace' = trace \o <<<<"state_err", block_number>>,
                                 <<"warn_retry", block_number>>>>
          /\ block_int' = block_int + 1
          /\ pc' = "for"
          /\ UNCHANGED block_pool_info
    /\ UNCHANGED <<start_block, lookback_block_limit, err, block_number,
                   latest_block_number, pool_info, transaction_info,
                   config_file, pool_info_file, transaction_info_file, store,
                   restarts>>
    /\ UNCHANGED outside_main

\* lines 94-103: read the pool state of the block, again after every ValueError
GetBlockPoolInfo(flaky, falsy) ==
    /\ pc = "get"
    /\ \/ /\ \E info \in PoolInfos(block_number, falsy) : block_pool_info' = info
          /\ trace' = Append(trace, <<IF block_pool_info'.truthy
                                      THEN "state" ELSE "state_falsy",
                                      block_number>>)
          /\ pc' = "store"
          /\ UNCHANGED failures
       \/ /\ block_number \in flaky
          /\ failures < MaxFailures
          /\ failures' = failures + 1
          /\ trace' = trace \o <<<<"state_err", block_number>>,
                                 <<"warn_retry", block_number>>>>
          /\ pc' = "get"
          /\ UNCHANGED block_pool_info
    /\ UNCHANGED <<start_block, lookback_block_limit, err, block_number,
                   latest_block_number, block_int, pool_info, transaction_info,
                   config_file, pool_info_file, transaction_info_file, store,
                   restarts>>
    /\ UNCHANGED outside_main

\* lines 105-107 without the if of line 105: a falsy PoolInfo is handed to
\* postgres and appended like any other
StorePoolInfoAlways ==
    /\ pc = "store"
    /\ \/ /\ store' = add_pool_infos(<<block_pool_info>>, store)
          /\ trace' = trace \o StoreEntries(<<block_pool_info>>)
          /\ pc' = "append"
          /\ UNCHANGED err
       \/ /\ trace' = Append(trace, <<"store_err", block_number>>)
          /\ pc' = "exited"
          /\ err' = "StoreError"
          /\ UNCHANGED store
    /\ UNCHANGED <<start_block, lookback_block_limit, block_number,
                   latest_block_number, block_int, block_pool_info, pool_info,
                   transaction_info, config_file, pool_info_file,
                   transaction_info_file, failures, restarts>>
    /\ UNCHANGED outside_main

\* lines 105-106 inside a try whose except only logs: after a failed store
\* write the loop goes on with line 107
StorePoolInfoSwallow ==
    /\ pc = "store"
    /\ \/ /\ block_pool_info.truthy
          /\ store' = add_pool_infos(<<block_pool_info>>, store)
          /\ trace' = trace \o StoreEntries(<<block_pool_info>>)
          /\ pc' = "append"
       \/ /\ ~block_pool_info.truthy
          /\ pc' = "tx"
          /\ UNCHANGED <<store, trace>>
       \/ /\ block_pool_info.truthy
          /\ trace' = Append(trace, <<"store_err", block_number>>)
          /\ pc' = "append"
          /\ UNCHANGED store
    /\ UNCHANGED <<start_block, lookback_block_limit, err, block_number,
                   latest_block_number, block_int, block_pool_info, pool_info,
                   transaction_info, config_file, pool_info_file,
                   transaction_info_file, failures, restarts>>
    /\ UNCHANGED outside_main

\* lines 105-106: hand a truthy PoolInfo to postgres
StorePoolInfo ==
    /\ pc = "store"
    /\ \/ /\ block_pool_info.truthy
          /\ store' = add_pool_infos(<<block_pool_info>>, store)
          /\ trace' = trace \o StoreEntries(<<block_pool_info>>)
          /\ pc' = "append"
          /\ UNCHANGED err
       \/ /\ ~block_pool_info.truthy
          /\ pc' = "tx"
          /\ UNCHANGED <<store, trace, err>>
       \/ /\ block_pool_info.truthy
          /\ trace' = Append(trace, <<"store_err", block_number>>)
          /\ pc' = "exited"
          /\ err' = "StoreError"
          /\ UNCHANGED store
    /\ UNCHANGED <<start_block, lookback_block_limit, block_number,
                   latest_block_number, block_int, block_pool_info, pool_info,
                   transaction_info, config_file, pool_info_file,
                   transaction_info_file, failures, restarts>>
    /\ UNCHANGED outside_main

\* line 107 run twice: the PoolInfo is appended inside the if and again after it
AppendPoolInfoTwice ==
    /\ pc = "append"
    /\ pool_info' = pool_info \o <<block_pool_info, block_pool_info>>
    /\ pc' = "tx"
    /\ UNCHANGED <<start_block, lookback_block_limit, err, block_number,
                   latest_block_number, block_int, block_pool_info,
                   transaction_info, config_file, pool_info_file,
                   transaction_info_file, store, trace, failures, restarts>>
    /\ UNCHANGED outside_main

\* line 107: append the PoolInfo to the list
AppendPoolInfo ==
    /\ pc = "append"
    /\ pool_info' = Append(pool_info, block_pool_info)
    /\ pc' = "tx"
    /\ UNCHANGED <<start_block, lookback_block_limit, err, block_number,
                   latest_block_number, block_int, block_pool_info,
                   transaction_info, config_file, pool_info_file,
                   transaction_info_file, store, trace, failures, restarts>>
    /\ UNCHANGED outside_main

\* lines 108-112: fetch the transactions of the block; the iteration ends
FetchTransactions ==
    /\ pc = "tx"
    /\ \E n \in TxCounts(block_number) :
        transaction_info' = IF n > 0
                            THEN Extend(transaction_info,
                                        Transactions(block_number, n))
                            ELSE transaction_info
    /\ trace' = Append(trace, <<"tx", block_number>>)
    /\ block_int' = block_int + 1
    /\ pc' = "for"
    /\ UNCHANGED <<start_block, lookback_block_limit, err, block_number,
                   latest_block_number, block_pool_info, pool_info, config_file,
                   pool_info_file, transaction_info_file, store, failures,
                   restarts>>
    /\ UNCHANGED outside_main

\* lines 114-115: rewrite the pool info snapshot
WritePoolInfoFile ==
    /\ pc = "file_pool"
    /\ pool_info_file' = WriteFile(pool_info_file, pool_info)
    /\ trace' = Append(trace, <<"file_pool", block_number>>)
    /\ pc' = "file_tx"
    /\ UNCHANGED <<start_block, lookback_block_limit, err, block_number,
                   latest_block_number, block_int, block_pool_info, pool_info,
                   transaction_info, config_file, transaction_info_file, store,
                   failures, restarts>>
    /\ UNCHANGED outside_main

\* lines 117-118: rewrite the transaction snapshot
WriteTransactionFile ==
    /\ pc = "file_tx"
    /\ transaction_info_file' = WriteFile(transaction_info_file, transaction_info)
    /\ trace' = Append(trace, <<"file_tx", block_number>>)
    /\ pc' = "sleep"
    /\ UNCHANGED <<start_block, lookback_block_limit, err, block_number,
                   latest_block_number, block_int, block_pool_info, pool_info,
                   transaction_info, config_file, pool_info_file, store, failures,
                   restarts>>
    /\ UNCHANGED outside_main

\* line 119: sleep after the snapshots were written, then poll again
Sleep ==
    /\ pc = "sleep"
    /\ pc' = "poll"
    /\ UNCHANGED <<start_block, lookback_block_limit, err, block_number,
                   latest_block_number, block_int, block_pool_info, pool_info,
                   transaction_info, config_file, pool_info_file,
                   transaction_info_file, store, trace, failures, restarts>>
    /\ UNCHANGED outside_main

\* one run of main
Next ==
    \/ WriteConfig
    \/ ClampStart(Readings)
    \/ InitGetPoolInfo(Flaky, Falsy)
    \/ InitWriteFile
    \/ InitStore
    \/ Poll(Readings)
    \/ NextBlock
    \/ GetBlockPoolInfo(Flaky, Falsy)
    \/ StorePoolInfo
    \/ AppendPoolInfo
    \/ FetchTransactions
    \/ WritePoolInfoFile
    \/ WriteTransactionFile
    \/ Sleep

Spec == Init /\ [][Next]_vars

----------------------------------------------------------------------------
(* The run of section 8: the default lookback limit of 1000 blocks, a start *)
(* at block 1 or 10 and a chain that is at block 2000 at every later poll   *)

ScenarioStartBlocks == {1, 10}
ScenarioStartReadings == {10, 1001, 1002, 5000}
ScenarioPollReadings == {2000}
ScenarioFlaky == {2000}
ScenarioFalsy == {2000}

InitScenario ==
    /\ \E start \in ScenarioStartBlocks : Started(start, LOOKBACK_BLOCK_LIMIT)
    /\ config_file = NoFile
    /\ pool_info_file = NoFile
    /\ transaction_info_file = NoFile
    /\ store = <<>>
    /\ trace = <<>>
    /\ restarts = 0
    /\ OutsideMainIdle

NextScenario ==
    \/ WriteConfig
    \/ ClampStart(ScenarioStartReadings)
    \/ InitGetPoolInfo(ScenarioFlaky, ScenarioFalsy)
    \/ InitWriteFile
    \/ InitStore
    \/ Poll(ScenarioPollReadings)
    \/ NextBlock
    \/ GetBlockPoolInfo(ScenarioFlaky, ScenarioFalsy)
    \/ StorePoolInfo
    \/ AppendPoolInfo
    \/ FetchTransactions
    \/ WritePoolInfoFile
    \/ WriteTransactionFile
    \/ Sleep

SpecScenario == InitScenario /\ [][NextScenario]_vars

----------------------------------------------------------------------------
(* main killed or left by an exception, and started again by its supervisor *)
(* with the same arguments: the store and the files are what is left of the *)
(* run before                                                               *)

RestartStartBlocks == {0, 1}
RestartLookbackLimits == {1, 2}
RestartReadings == 0..2
RestartFlaky == {1}
RestartFalsy == {}

\* the process is killed; inside a block's iteration after its store write
\* (lines 106-112) the block is persisted but its iteration is unfinished
Kill ==
    /\ pc # "exited"
    /\ pc' = "exited"
    /\ err' = "killed"
    /\ trace' = Append(trace, <<IF pc \in {"append", "tx"}
                                THEN "kill_after_store" ELSE "kill", block_number>>)
    /\ UNCHANGED <<start_block, lookback_block_limit, block_number,
                   latest_block_number, block_int, block_pool_info, pool_info,
                   transaction_info, config_file, pool_info_file,
                   transaction_info_file, store, failures, restarts>>
    /\ UNCHANGED outside_main

\* what a run leaves to the next one: the rows in the store and, when it was
\* killed inside a block's iteration after the store write, that block
LeftBehind(rows, tr) ==
    [i \in DOMAIN rows |-> <<"stored_before", rows[i].blockNumber>>]
    \o (IF tr # <<>> /\ tr[Len(tr)][1] = "kill_after_store"
        THEN <<tr[Len(tr)]>> ELSE <<>>)

\* main is started again: lines 19-42 with the same arguments; the trace
\* starts over
Restart ==
    /\ pc = "exited"
    /\ restarts < MaxRestarts
    /\ restarts' = restarts + 1
    /\ pc' = "config"
    /\ err' = ""
    /\ block_number' = start_block
    /\ latest_block_number' = 0
    /\ block_int' = 0
    /\ block_pool_info' = NoPoolInfo
    /\ pool_info' = <<>>
    /\ transaction_info' = <<>>
    /\ failures' = 0
    /\ trace' = LeftBehind(store, trace)
    /\ UNCHANGED <<start_block, lookback_block_limit, config_file,
                   pool_info_file, transaction_info_file, store>>
    /\ UNCHANGED outside_main

InitRestart ==
    /\ \E start \in RestartStartBlocks, limit \in RestartLookbackLimits :
            Started(start, limit)
    /\ config_file = NoFile
    /\ pool_info_file = NoFile
    /\ transaction_info_file = NoFile
    /\ store = <<>>
    /\ trace = <<>>
    /\ restarts = 0
    /\ OutsideMainIdle

NextRestart ==
    \/ WriteConfig
    \/ ClampStart(RestartReadings)
    \/ InitGetPoolInfo(RestartFlaky, RestartFalsy)
    \/ InitWriteFile
    \/ InitStore
    \/ Poll(RestartReadings)
    \/ NextBlock
    \/ GetBlockPoolInfo(RestartFlaky, RestartFalsy)
    \/ StorePoolInfo
    \/ AppendPoolInfo
    \/ FetchTransactions
    \/ WritePoolInfoFile
    \/ WriteTransactionFile
    \/ Sleep
    \/ Kill
    \/ Restart

SpecRestart == InitRestart /\ [][NextRestart]_vars

----------------------------------------------------------------------------
(* Properties *)

\* s is strictly increasing
Increasing(s) == \A i, j \in DOMAIN s : i < j => s[i] < s[j]

\* the blockNumbers handed to postgres.add_pool_infos so far, in order
StoreWrites == Blocks(trace, "store")

\* C1: the blockNumbers main hands to the store, the write at startup and
\* every write of the loop, are strictly increasing over a run, whatever the
\* latest-block readings and the ValueErrors of get_block_pool_info are
C1_StoreWritesIncreasing == Increasing(StoreWrites)

\* C1 witness: three blocks were handed to the store in a run in which
\* get_block_pool_info raised and a block was skipped
C1_Witness ==
    /\ Len(StoreWrites) >= 3
    /\ BlockSet(trace, "state_err") # {}
    /\ BlockSet(trace, "warn_skip") # {}

\* the warnings of a clamped start logged so far
ClampWarnings == Blocks(trace, "warn_clamp")

\* C2: right after lines 50-55, a start more than lookback_block_limit behind
\* the latest block was replaced by latest - lookback_block_limit with one
\* warning; a start at most lookback_block_limit behind (equality included)
\* is kept without a warning; latest 5000, limit 1000, start 1 start at 4000
C2_LookbackClamp ==
    pc = "init_get" =>
        /\ (latest_block_number - start_block > lookback_block_limit =>
                /\ block_number = latest_block_number - lookback_block_limit
                /\ ClampWarnings = <<block_number>>)
        /\ (latest_block_number - start_block <= lookback_block_limit =>
                /\ block_number = start_block
                /\ ClampWarnings = <<>>)
        /\ (/\ latest_block_number = 5000
            /\ lookback_block_limit = 1000
            /\ start_block = 1
            => block_number = 4000 /\ ClampWarnings = <<4000>>)

\* C2 witness: latest 5000, limit 1000, start 1: main starts at 4000, warned
C2_Witness ==
    /\ pc = "init_get"
    /\ latest_block_number = 5000
    /\ lookback_block_limit = 1000
    /\ start_block = 1
    /\ block_number = 4000
    /\ ClampWarnings = <<4000>>

\* the first tick of a run that started at block 10 without a clamp read
\* latest = 2000 with a limit of 1000
FellBehind ==
    /\ pc \in {"for", "get", "store", "append", "tx", "file_pool"}
    /\ lookback_block_limit = 1000
    /\ latest_block_number = 2000
    /\ pool_info # <<>>
    /\ pool_info[1].blockNumber = 10
    /\ ClampWarnings = <<>>
    /\ transaction_info_file = NoFile

\* the blocks get_block_pool_info returned a PoolInfo for
ReadBlocks == BlockSet(trace, "state") \cup BlockSet(trace, "state_falsy")

\* the blocks the tick has skipped, read and fetched the transactions of are
\* among skip and done, and they are all of them once the for loop is through
TickSplit(skip, done) ==
    /\ BlockSet(trace, "warn_skip") \subseteq skip
    /\ ReadBlocks \subseteq {10} \cup done
    /\ BlockSet(trace, "tx") \subseteq done
    /\ pc = "file_pool" =>
        /\ BlockSet(trace, "warn_skip") = skip
        /\ ReadBlocks = {10} \cup done
        /\ BlockSet(trace, "tx") = done

\* C3 as stated: blocks 11..1000 are skipped and 1001..2000 are processed
C3_SkipsUpTo1000 == FellBehind => TickSplit(11..1000, 1001..2000)

\* C3 amended: blocks 11..999 are skipped with a warning each, blocks
\* 1000..2000 are processed (2000 - 1000 is not greater than the limit)
C3_SkipsUpTo999 == FellBehind => TickSplit(11..999, 1000..2000)

\* C3 witness: the tick has skipped 11..999 with a warning each and reads
\* the pool state of block 1000
C3_Witness ==
    /\ FellBehind
    /\ Blocks(trace, "warn_skip") = [i \in 1..989 |-> 10 + i]
    /\ pc = "get"
    /\ block_number = 1000

\* the block main started at, once it was read
StartingBlock == pool_info[1].blockNumber

\* the places of the trace where the loop got a truthy PoolInfo for a block
\* whose iteration has since gone past line 107
LoopReadsDone ==
    {j \in DOMAIN trace :
        /\ trace[j][1] = "state"
        /\ trace[j][2] > StartingBlock
        /\ \/ <<"tx", trace[j][2]>> \in Range(trace)
           \/ pc = "tx" /\ block_number = trace[j][2]}

\* C4: when get_block_pool_info raised ValueError k times for a block of the
\* loop and then returned a PoolInfo, the list holds exactly one PoolInfo of
\* the block, the store was handed the block exactly once, k retry warnings
\* were logged for it, and from the first ValueError to the PoolInfo nothing
\* but reads of that block and their warnings happened
C4_RetryConverges ==
    \A j \in LoopReadsDone :
        LET b == trace[j][2] IN
        /\ Count(BlockNumbers(pool_info), b) = 1
        /\ Count(StoreWrites, b) = 1
        /\ Count(trace, <<"warn_retry", b>>) = Count(trace, <<"state_err", b>>)
        /\ \A i \in 1..j :
              trace[i] = <<"state_err", b>> =>
                  \A m \in i..j :
                      trace[m] \in {<<"state_err", b>>, <<"warn_retry", b>>,
                                    <<"state", b>>}

\* C4 witness: a block of the loop was read at the third attempt, after two
\* ValueErrors and two warnings, and is once in the list and in the store
C4_Witness ==
    \E j \in LoopReadsDone :
        LET b == trace[j][2] IN
        /\ Count(trace, <<"state_err", b>>) = 2
        /\ Count(trace, <<"warn_retry", b>>) = 2
        /\ j > 4
        /\ trace[j - 4] = <<"state_err", b>>
        /\ Count(BlockNumbers(pool_info), b) = 1
        /\ Count(StoreWrites, b) = 1

\* the block a run before was killed in after the block's store write and
\* before the end of its iteration, as a set: empty when there is none
KilledAfterStore == BlockSet(trace, "kill_after_store")

\* C5: main killed after block N was handed to the store and before N's
\* iteration was over, and started again, resumes at block N (stated for the
\* restarts that find the chain at block N or later)
C5_ResumesAtCrashBlock ==
    (restarts > 0 /\ pc = "init_get") =>
        \A n \in KilledAfterStore :
            latest_block_number >= n => block_number = n

\* the blocks skipped with a warning
SkippedBlocks == BlockSet(trace, "warn_skip")

\* the for loop is inside the iteration of a block that was not skipped
InBlock == pc \in {"get", "store", "append", "tx"}

\* block b went through lines 94-112: it was read, handed to the store and
\* appended when its PoolInfo was truthy, and its transactions were fetched
Processed(b) ==
    /\ b \in ReadBlocks
    /\ <<"state", b>> \in Range(trace) =>
            Count(StoreWrites, b) = 1 /\ Count(BlockNumbers(pool_info), b) = 1
    /\ <<"tx", b>> \in Range(trace)

C7_IdempotentUpsert ==
    /\ \A b \in BlockSet(trace, "store") \cup BlockSet(trace, "stored_before") :
            Count(BlockNumbers(store), b) = 1
    /\ Range(BlockNumbers(store)) =
            BlockSet(trace, "store") \cup BlockSet(trace, "stored_before")

\* C7 witness: a block that had a row in the store when main started was
\* handed to the store again, and the store has one row for it
C7_Witness ==
    \E b \in BlockSet(trace, "store") \cap BlockSet(trace, "stored_before") :
        Count(BlockNumbers(store), b) = 1

\* the blockNumbers of the transactions in the list
TransactionBlocks == {transaction_info[i].blockNumber : i \in DOMAIN transaction_info}

\* C8: a block of a tick is skipped exactly when latest - b is greater than
\* lookback_block_limit: every skip warning is for such a block, every block
\* the loop reads is not such a block, and no block is left out otherwise; a
\* skipped block is never read, never has its transactions fetched, and is
\* neither in the store nor in the lists, in this tick or a later one
C8_SkipRule ==
    /\ \A i \in DOMAIN trace :
          trace[i][1] = "warn_skip" =>
              /\ trace[i][3] - trace[i][2] > lookback_block_limit
              /\ trace[i][2] \notin ReadBlocks
              /\ trace[i][2] \notin BlockSet(trace, "state_err")
              /\ trace[i][2] \notin BlockSet(trace, "tx")
              /\ trace[i][2] \notin Range(StoreWrites)
              /\ trace[i][2] \notin Range(BlockNumbers(store))
              /\ trace[i][2] \notin Range(BlockNumbers(pool_info))
              /\ trace[i][2] \notin TransactionBlocks
              /\ Count(Blocks(trace, "warn_skip"), trace[i][2]) = 1
    /\ InBlock =>
          /\ latest_block_number - block_number <= lookback_block_limit
          /\ block_number \notin SkippedBlocks
    /\ pool_info # <<>> =>
          \A b \in (StartingBlock + 1)..(block_number - 1) :
              b \in SkippedBlocks \/ b \in ReadBlocks

\* C8 witness: a block was skipped in a tick whose snapshots are written, and
\* a later tick has read a later block
C8_Witness ==
    \E i, j, k \in DOMAIN trace :
        /\ i < j /\ j < k
        /\ trace[i][1] = "warn_skip"
        /\ trace[j][1] = "file_tx"
        /\ trace[k][1] = "state"
        /\ trace[k][2] > trace[i][2]

\* the blocks of the loop for which get_block_pool_info returned a falsy value
FalsyLoopBlocks == BlockSet(trace, "state_falsy") \ {StartingBlock}

\* C9 as stated: between ticks the blockNumbers in the store and in the pool
\* info snapshot are the whole range from the starting block to block_number
\* (stated for the runs in which every PoolInfo was truthy)
C9_GapFree ==
    (pc = "poll" /\ FalsyLoopBlocks = {}) =>
        /\ BlockNumbers(store) =
              [i \in 1..(block_number - StartingBlock + 1) |-> StartingBlock + i - 1]
        /\ BlockNumbers(pool_info_file.data) = BlockNumbers(store)

\* C9 amended: between ticks the blockNumbers in the store and in the pool
\* info snapshot are, in ascending order, the range from the starting block
\* to block_number without the blocks skipped by the lookback rule and
\* without the blocks of the loop whose PoolInfo was falsy
C9_GapsOnlyWhereSkipped ==
    pc = "poll" =>
        /\ Range(BlockNumbers(store)) =
              (StartingBlock..block_number) \ (SkippedBlocks \cup FalsyLoopBlocks)
        /\ Increasing(BlockNumbers(store))
        /\ BlockNumbers(pool_info_file.data) = BlockNumbers(store)

\* C9 witness: between ticks, a block was skipped and the store has the
\* blocks on both sides of it
C9_Witness ==
    /\ pc = "poll"
    /\ \E b \in SkippedBlocks :
          /\ b - 1 \in Range(BlockNumbers(store))
          /\ b + 1 \in Range(BlockNumbers(store))
          /\ b \notin Range(BlockNumbers(store))

\* C10: a ValueError of get_block_pool_info never leaves main
C10_ValueErrorNeverLeavesMain == ~(pc = "exited" /\ err = "ValueError")

\* the blocks of the loop whose store write raised
StoreErrBlocks ==
    {b \in BlockSet(trace, "store_err") : pool_info # <<>> /\ b > StartingBlock}

\* the blockNumbers in the pool info snapshot
FileBlocks ==
    Range(BlockNumbers(pool_info_file.data))

\* C11: when the store write of a block of the loop raises, the error leaves
\* main: nothing is called, stored or written after it, and the block's
\* PoolInfo is neither in the list nor in the store nor in the snapshot
C11_StoreFailureIsFatal ==
    \A b \in StoreErrBlocks :
        /\ pc = "exited"
        /\ err = "StoreError"
        /\ trace[Len(trace)] = <<"store_err", b>>
        /\ block_number = b
        /\ b \notin Range(BlockNumbers(pool_info))
        /\ b \notin Range(BlockNumbers(store))
        /\ b \notin FileBlocks
        /\ b \notin TransactionBlocks
        /\ <<"tx", b>> \notin Range(trace)

\* C11 witness: the store write of the second block of a tick raised; main
\* is left, the first block of the tick is in the store, the second is not
C11_Witness ==
    \E b \in StoreErrBlocks :
        /\ pc = "exited"
        /\ trace[Len(trace) - 1] = <<"state", b>>
        /\ <<"tx", b - 1>> \in Range(trace)
        /\ b - 1 \in Range(BlockNumbers(store))
        /\ b - 1 \notin FileBlocks

\* C12: a tick whose reading of the latest block is not above the cursor calls
\* no extractor, writes nothing to the store or to a file and leaves the
\* cursor and both lists alone: it only sleeps and polls again
C12_NoWorkTick ==
    [][(pc = "poll" /\ latest_block_number' <= block_number)
        => /\ pc' = "poll"
           /\ UNCHANGED <<start_block, lookback_block_limit, err, block_number,
                          block_int, block_pool_info, pool_info, transaction_info,
                          config_file, pool_info_file, transaction_info_file,
                          store, trace, failures, restarts>>]_vars

\* after a tick that wrote both snapshots left the cursor at the latest
\* block, a tick read a latest block below the cursor and is polling again
C12_Witness ==
    /\ pc = "poll"
    /\ \E b \in 0..MaxBlock : <<"file_tx", b>> \in Range(trace)
    /\ latest_block_number < block_number
    /\ pool_info_file.data = pool_info
    /\ transaction_info_file.data = transaction_info

\* the for loop of the tick is through and lines 114-119 are being run
Flushing == pc \in {"file_pool", "file_tx", "sleep"}

\* C13: once a tick with new blocks is through its for loop, the pool info
\* snapshot is written as the whole of pool_info and the transaction snapshot
\* as the whole of transaction_info, records of earlier ticks included; the
\* snapshots are written only when every block up to the latest one was
\* skipped or went through its iteration, and not while the loop is in one
C13_SnapshotFlush ==
    /\ Flushing =>
        /\ block_int = latest_block_number + 1
        /\ block_number = latest_block_number
        /\ \A b \in (StartingBlock + 1)..latest_block_number :
                b \in SkippedBlocks \/ Processed(b)
    /\ pc \in {"file_tx", "sleep"} =>
        /\ pool_info_file.exists
        /\ pool_info_file.data = pool_info
        /\ trace[Len(trace) - (IF pc = "sleep" THEN 1 ELSE 0)]
                = <<"file_pool", latest_block_number>>
    /\ pc = "sleep" =>
        /\ transaction_info_file.exists
        /\ transaction_info_file.data = transaction_info
        /\ trace[Len(trace)] = <<"file_tx", latest_block_number>>
    /\ (InBlock \/ pc = "for") =>
        trace[Len(trace)][1] \notin {"file_pool", "file_tx"}
           \/ block_int = RangeFirst(trace[Len(trace)][2])

\* the second tick with new blocks has written both snapshots: they hold the
\* record of the start, the block of the first tick and the block of this one
C13_Witness ==
    /\ pc = "sleep"
    /\ Len(Blocks(trace, "file_tx")) = 2
    /\ Len(pool_info) = 3
    /\ pool_info_file.data = pool_info
    /\ transaction_info_file.data = transaction_info
    /\ Len(transaction_info) >= 2
    /\ transaction_info[1].blockNumber < block_number

\* C14: pool_info, and with it every pool info snapshot dumped from it, has
\* no two records of one blockNumber and is in strictly ascending blockNumber
\* order, in every state of a run
C14_PoolInfoAscending ==
    /\ Increasing(BlockNumbers(pool_info))
    /\ Increasing(BlockNumbers(pool_info_file.data))
    /\ \A b \in Range(BlockNumbers(pool_info)) : Count(BlockNumbers(pool_info), b) = 1
    /\ \A b \in FileBlocks : Count(BlockNumbers(pool_info_file.data), b) = 1

\* a snapshot of three records was written by the loop, the second of them
\* more than one block after the record of the start
C14_Witness ==
    /\ Len(pool_info_file.data) = 3
    /\ pool_info_file.data = pool_info
    /\ pool_info[2].blockNumber > pool_info[1].blockNumber + 1
    /\ Len(Blocks(trace, "file_tx")) >= 1

\* the greater of two integers
Max(a, b) == IF a >= b THEN a ELSE b

\* C15: a clamped start is max(latest - lookback_block_limit, 0), so whatever
\* start_block and the latest block are, negative start included, the block
\* main starts at and every block handed to get_block_pool_info and to
\* fetch_transactions_for_block is not negative
C15_StartNotNegative ==
    /\ pc = "init_get" =>
        /\ (ClampWarnings # <<>> =>
                block_number = Max(latest_block_number - lookback_block_limit, 0))
        /\ block_number >= 0
    /\ \A b \in ReadBlocks \cup BlockSet(trace, "state_err") \cup BlockSet(trace, "tx") :
            b >= 0

\* the place of the one trace entry of this kind for block b
Position(kind, b) == CHOOSE i \in DOMAIN trace : trace[i] = <<kind, b>>

\* the records of block b in transaction_info, in order
TransactionsOf(b) ==
    LET OfBlock(r) == r.blockNumber = b
    IN SelectSeq(transaction_info, OfBlock)

\* C16: a block of the loop that is not skipped goes through these steps in
\* this order, each once: get_block_pool_info returns its PoolInfo, the
\* PoolInfo is handed to the store, it is appended to pool_info, its
\* transactions are fetched and put at the end of transaction_info; a
\* block that went through has one record in pool_info and one in the store
\* (stated for a truthy PoolInfo; a falsy one is neither stored nor appended)
C16_PerBlockProtocol ==
    /\ \A b \in BlockSet(trace, "tx") :
        /\ Count(Blocks(trace, "tx"), b) = 1
        /\ Count(Blocks(trace, "state") \o Blocks(trace, "state_falsy"), b) = 1
        /\ <<"state", b>> \in Range(trace) =>
            /\ Count(StoreWrites, b) = 1
            /\ Count(BlockNumbers(pool_info), b) = 1
            /\ Count(BlockNumbers(store), b) = 1
            /\ Position("state", b) < Position("store", b)
            /\ Position("store", b) < Position("tx", b)
        /\ <<"state_falsy", b>> \in Range(trace) =>
            /\ Count(StoreWrites, b) = 0
            /\ Count(BlockNumbers(pool_info), b) = 0
        /\ TransactionsOf(b) \in {Transactions(b, n) : n \in TxCounts(b)}
    /\ pc = "get" =>
        /\ block_number \notin ReadBlocks \cup Range(StoreWrites)
        /\ block_number \notin Range(BlockNumbers(pool_info)) \cup TransactionBlocks
    /\ pc = "store" =>
        /\ trace[Len(trace)] = <<IF block_pool_info.truthy THEN "state"
                                  ELSE "state_falsy", block_number>>
        /\ block_pool_info.blockNumber = block_number
        /\ block_number \notin Range(StoreWrites) \cup Range(BlockNumbers(pool_info))
    /\ pc = "append" =>
        /\ trace[Len(trace)] = <<"store", block_number>>
        /\ Count(BlockNumbers(store), block_number) = 1
        /\ block_number \notin Range(BlockNumbers(pool_info))
    /\ pc = "tx" =>
        /\ block_pool_info.truthy =>
            /\ pool_info[Len(pool_info)] = block_pool_info
            /\ Count(BlockNumbers(pool_info), block_number) = 1
            /\ trace[Len(trace)] = <<"store", block_number>>
        /\ <<"tx", block_number>> \notin Range(trace)
        /\ block_number \notin TransactionBlocks

\* two blocks of one tick went through the steps, the first after a
\* ValueError and with a transaction, the second with two transactions
C16_Witness ==
    /\ pc = "for"
    /\ \E b \in 1..MaxBlock :
        /\ <<"state_err", b>> \in Range(trace)
        /\ Blocks(trace, "tx") = <<b, b + 1>>
        /\ StoreWrites = <<StartingBlock, b, b + 1>>
        /\ BlockNumbers(pool_info) = StoreWrites
        /\ Len(TransactionsOf(b)) = 1
        /\ Len(TransactionsOf(b + 1)) = 2

-----------------------------------------------------------------------------
(* main as a process that keeps running, on a chain that only grows and
   whose latest block is at most lookback_block_limit + 1 ahead of
   block_number when it is read at line 75; every PoolInfo is truthy *)

LiveStartBlocks == {0, 1}
LiveLookbackLimits == {1, 2}
LiveReadings == 0..(MaxBlock - 1)
LiveFlaky == {1, 2}
LiveFalsy == {}

\* the readings line 75 may get: not below the reading before, and not more
\* than lookback_block_limit + 1 above block_number
LivePollReadings ==
    {r \in LiveReadings :
        /\ r >= latest_block_number
        /\ r - block_number <= lookback_block_limit + 1}

InitLive ==
    /\ \E start \in LiveStartBlocks, limit \in LiveLookbackLimits :
            Started(start, limit)
    /\ config_file = NoFile
    /\ pool_info_file = NoFile
    /\ transaction_info_file = NoFile
    /\ store = <<>>
    /\ trace = <<>>
    /\ restarts = 0
    /\ OutsideMainIdle

NextLive ==
    \/ WriteConfig
    \/ ClampStart(LiveReadings)
    \/ InitGetPoolInfo(LiveFlaky, LiveFalsy)
    \/ InitWriteFile
    \/ InitStore
    \/ Poll(LivePollReadings)
    \/ NextBlock
    \/ GetBlockPoolInfo(LiveFlaky, LiveFalsy)
    \/ StorePoolInfo
    \/ AppendPoolInfo
    \/ FetchTransactions
    \/ WritePoolInfoFile
    \/ WriteTransactionFile
    \/ Sleep

\* main is one sequential process: a step that can be taken is taken, the
\* sleeps of lines 102 and 119 return
SpecLive == InitLive /\ [][NextLive]_vars /\ WF_vars(NextLive)

\* main has read the latest block at least once and has its starting block
Running == pc \notin {"config", "start", "init_get", "exited"}

-----------------------------------------------------------------------------

\* s is the beginning of t
IsPrefix(s, t) == Len(s) <= Len(t) /\ SubSeq(t, 1, Len(s)) = s

\* the records are grouped by ascending blockNumber and, within a block, in
\* the order fetch_transactions_for_block returned them
DiscoveryOrder(txs) ==
    \A i, j \in DOMAIN txs :
        i < j => \/ txs[i].blockNumber < txs[j].blockNumber
                 \/ /\ txs[i].blockNumber = txs[j].blockNumber
                    /\ txs[i].index < txs[j].index

\* C18: over a run of main, transaction_info only grows at its end, every
\* transaction snapshot written begins with what the snapshot before it held,
\* and the records are grouped by ascending blockNumber in the order the
\* fetch returned them, none of them lost or changed
C18_TransactionsAppendOnly ==
    /\ [][IsPrefix(transaction_info, transaction_info')]_vars
    /\ [][IsPrefix(transaction_info_file.data, transaction_info_file'.data)]_vars
    /\ [](/\ DiscoveryOrder(transaction_info)
          /\ DiscoveryOrder(transaction_info_file.data)
          /\ IsPrefix(transaction_info_file.data, transaction_info)
          /\ \A b \in TransactionBlocks :
                TransactionsOf(b) \in {Transactions(b, n) : n \in TxCounts(b)})

\* the second tick is in its for loop: the snapshot holds the transaction of
\* the first tick, and transaction_info holds it followed by the two
\* transactions of a block of this tick
C18_Witness ==
    /\ pc = "for"
    /\ transaction_info_file.exists
    /\ Len(transaction_info_file.data) = 1
    /\ Len(transaction_info) = 3
    /\ IsPrefix(transaction_info_file.data, transaction_info)
    /\ transaction_info[1].blockNumber < transaction_info[2].blockNumber
    /\ transaction_info[2].blockNumber = transaction_info[3].blockNumber

\* the places of the trace where the pool config was fetched and written
ConfigWrites == {i \in DOMAIN trace : trace[i][1] = "config"}

\* the places of the trace where get_block_pool_info was called
PoolInfoReads ==
    {i \in DOMAIN trace : trace[i][1] \in {"state", "state_falsy", "state_err"}}

\* C19: a run of main fetches the pool config once, at its start and before
\* any call of get_block_pool_info, and writes it by replacing the config
\* snapshot; no step after that, of the start or of a tick, writes the
\* config snapshot
C19_ConfigOnce ==
    /\ [](/\ Cardinality(ConfigWrites) <= 1
          /\ pc \notin {"config", "exited"} => Cardinality(ConfigWrites) = 1
          /\ \A i \in PoolInfoReads : \E j \in ConfigWrites : j < i
          /\ config_file.exists => config_file.data = <<"config">>
          /\ ConfigWrites # {} => config_file.exists)
    /\ [][pc # "config" => config_file' = config_file]_vars

\* main was started again and its second run, after writing the config over
\* the snapshot of the first run, has been through a tick
C19_Witness ==
    /\ restarts = 1
    /\ pc = "poll"
    /\ Cardinality(ConfigWrites) = 1
    /\ config_file = WriteFile(NoFile, <<"config">>)
    /\ \E b \in 0..MaxBlock : <<"file_tx", b>> \in Range(trace)
    /\ \E i \in PoolInfoReads : trace[i][1] = "state_err"

\* the blocks the loop handed to the store since the pool info snapshot was
\* last written
TickStores ==
    {trace[i][2] : i \in {j \in DOMAIN trace :
        /\ trace[j][1] = "store"
        /\ trace[j][2] > StartingBlock
        /\ \A k \in DOMAIN trace : k > j => trace[k][1] # "file_pool"}}

\* C20: whenever main is between two ticks, the blockNumbers in the store
\* are those in the pool info snapshot; when a tick is left by an error in
\* the middle of its blocks, the blocks it has been through are in the store
\* and not in the snapshot, which still is as the tick before left it
C20_StoreAndFileAgree ==
    /\ pc \in {"sleep", "poll"} =>
        /\ Range(BlockNumbers(store)) = FileBlocks
        /\ TickStores = {}
    /\ (pc = "exited" /\ StoreErrBlocks # {}) =>
        /\ TickStores \subseteq Range(BlockNumbers(store))
        /\ TickStores \cap FileBlocks = {}
        /\ Range(BlockNumbers(store)) = FileBlocks \cup TickStores
        /\ \A b \in TickStores : <<"tx", b>> \in Range(trace)

\* a tick was left by a store error at its third block: its first two
\* blocks are in the store and not in the snapshot
C20_Witness ==
    /\ pc = "exited"
    /\ err = "StoreError"
    /\ StoreErrBlocks # {}
    /\ Cardinality(TickStores) = 2
    /\ TickStores \cap FileBlocks = {}
    /\ TickStores \subseteq Range(BlockNumbers(store))
    /\ FileBlocks # {}

-----------------------------------------------------------------------------
(* agent0/hyperdrive/policies/arbitrage.py: ArbitragePolicy.action.
   Rates are in hundredths: FixedPoint("0.1") is 10, FixedPoint("0.02") is 2. *)

\* positions a wallet holds on one side
MaxPositions == 2

\* lines 46-48: the defaults of Config
TRADE_AMOUNT == 100
HIGH_FIXED_RATE_THRESH == 10
LOW_FIXED_RATE_THRESH == 2

\* maturity_time of an action that opens a position (the default, None)
NoMaturity == -1

\* maturity times, balances, block times and fixed rates of the calls
Maturities == {1, 2, 3}
Balances == {10, 20}
BlockTimes == {2}
FixedRates == {1, 2, 5, 10, 11}

\* policy configs: the default, one with both thresholds at 5, and one with
\* the low threshold above the high one
PolicyConfigs ==
    {[trade_amount |-> TRADE_AMOUNT,
      high_fixed_rate_thresh |-> HIGH_FIXED_RATE_THRESH,
      low_fixed_rate_thresh |-> LOW_FIXED_RATE_THRESH],
     [trade_amount |-> 50, high_fixed_rate_thresh |-> 5,
      low_fixed_rate_thresh |-> 5],
     [trade_amount |-> TRADE_AMOUNT, high_fixed_rate_thresh |-> 2,
      low_fixed_rate_thresh |-> 10]}

\* wallet.longs or wallet.shorts: a dict keyed by maturity_time, in the order
\* of insertion, as the sequence of its items
Positions ==
    {s \in UNION {[1..n -> [maturity_time : Maturities, balance : Balances]] :
                    n \in 0..MaxPositions} :
        \A i, j \in DOMAIN s : i # j => s[i].maturity_time # s[j].maturity_time}

\* lines 106-114, 138-146, 150-157: a Trade with its HyperdriveMarketAction
Trade(action_type, trade_amount, maturity_time) ==
    [action_type |-> action_type, trade_amount |-> trade_amount,
     maturity_time |-> maturity_time]

\* lines 104, 119 with <= for <: a position maturing now counts as matured
MaturedLe(maturity_time, now) == maturity_time <= now

\* lines 104, 119: the position has matured
Matured(maturity_time, now) == maturity_time < now

\* lines 102-130: a close action for every matured position of one side
CloseMatured(action_type, positions, now) ==
    LET IsMatured(p) == Matured(p.maturity_time, now)
        matured == SelectSeq(positions, IsMatured)
    IN [i \in DOMAIN matured |->
            Trade(action_type, matured[i].balance, matured[i].maturity_time)]

\* lines 135-147, 163-175: a close action for every position of one side
CloseAll(action_type, positions) ==
    [i \in DOMAIN positions |->
        Trade(action_type, positions[i].balance, positions[i].maturity_time)]

\* line 133 with > for >=: a rate at the threshold is not high
HighRateGt(fixed_rate, config) == fixed_rate > config.high_fixed_rate_thresh

\* line 133: high fixed rate detected
HighRate(fixed_rate, config) == fixed_rate >= config.high_fixed_rate_thresh

\* line 161: low fixed rate detected
LowRate(fixed_rate, config) == fixed_rate <= config.low_fixed_rate_thresh

\* lines 96-188: ArbitragePolicy.action
action(iface, w, config) ==
    LET matured == CloseMatured("CLOSE_LONG", w.longs, iface.current_block_time)
                   \o CloseMatured("CLOSE_SHORT", w.shorts, iface.current_block_time)
        high == IF HighRate(iface.fixed_rate, config)
                THEN CloseAll("CLOSE_SHORT", w.shorts)
                     \o <<Trade("OPEN_LONG", config.trade_amount, NoMaturity)>>
                ELSE <<>>
        low == IF LowRate(iface.fixed_rate, config)
               THEN CloseAll("CLOSE_LONG", w.longs)
                    \o <<Trade("OPEN_SHORT", config.trade_amount, NoMaturity)>>
               ELSE <<>>
    IN [returned |-> TRUE, action_list |-> matured \o high \o low, done |-> FALSE]

\* main is not running
MainIdle ==
    /\ Started(0, 0)
    /\ config_file = NoFile
    /\ pool_info_file = NoFile
    /\ transaction_info_file = NoFile
    /\ store = <<>>
    /\ trace = <<>>
    /\ restarts = 0

\* a policy with some config is about to be asked for its action
InitArbitrage ==
    /\ MainIdle
    /\ PriceIdle
    /\ CheckpointIdle
    /\ wallet \in [longs : Positions, shorts : Positions]
    /\ interface \in [fixed_rate : FixedRates, current_block_time : BlockTimes]
    /\ policy_config \in PolicyConfigs
    /\ action_result = NotReturned

\* the call of ArbitragePolicy.action
CallAction ==
    /\ ~action_result.returned
    /\ action_result' = action(interface, wallet, policy_config)
    /\ UNCHANGED <<wallet, interface, policy_config>>
    /\ UNCHANGED outside_policy

NextArbitrage == CallAction

SpecArbitrage == InitArbitrage /\ [][NextArbitrage]_vars

\* the list ArbitragePolicy.action returned
action_list == action_result.action_list

\* the maturity times of the positions of one side, in the wallet's order
MaturityTimes(positions) == [i \in DOMAIN positions |-> positions[i].maturity_time]

\* C21: whatever the fixed rate is, the list action returns has, for every
\* long (short) of the wallet with maturity_time < current_block_time, a
\* CLOSE_LONG (CLOSE_SHORT) for that maturity_time and the balance of the
\* position; a position with maturity_time >= current_block_time gets no
\* close from this rule: it is closed only by the threshold rule of the
\* other side, once
C21_ClosesMatured ==
    action_result.returned =>
        /\ \A i \in DOMAIN wallet.longs :
            LET p == wallet.longs[i]
                close == Trade("CLOSE_LONG", p.balance, p.maturity_time)
            IN IF p.maturity_time < interface.current_block_time
               THEN close \in Range(action_list)
               ELSE Count(action_list, close) =
                        IF interface.fixed_rate <= policy_config.low_fixed_rate_thresh
                        THEN 1 ELSE 0
        /\ \A i \in DOMAIN wallet.shorts :
            LET p == wallet.shorts[i]
                close == Trade("CLOSE_SHORT", p.balance, p.maturity_time)
            IN IF p.maturity_time < interface.current_block_time
               THEN close \in Range(action_list)
               ELSE Count(action_list, close) =
                        IF interface.fixed_rate >= policy_config.high_fixed_rate_thresh
                        THEN 1 ELSE 0

\* with the fixed rate between the default thresholds, action returned the
\* closes of a matured long and a matured short and nothing for the long
\* and the short that mature at the current block time
C21_Witness ==
    /\ action_result.returned
    /\ interface = [fixed_rate |-> 5, current_block_time |-> 2]
    /\ policy_config.high_fixed_rate_thresh = HIGH_FIXED_RATE_THRESH
    /\ policy_config.low_fixed_rate_thresh = LOW_FIXED_RATE_THRESH
    /\ MaturityTimes(wallet.longs) = <<2, 1>>
    /\ MaturityTimes(wallet.shorts) = <<1, 2>>
    /\ action_list = <<Trade("CLOSE_LONG", wallet.longs[2].balance, 1),
                       Trade("CLOSE_SHORT", wallet.shorts[1].balance, 1)>>

\* the places of the list with an action of this type
ActionsOfType(action_type) ==
    {i \in DOMAIN action_list : action_list[i].action_type = action_type}

\* from place k - Len(positions) on, the list has a close for every position
\* of the side, in the wallet's order, and then at place k the open action
ClosesThenOpen(close_type, positions, open_type, k) ==
    /\ k > Len(positions)
    /\ \A j \in DOMAIN positions :
        action_list[k - Len(positions) - 1 + j]
            = Trade(close_type, positions[j].balance, positions[j].maturity_time)
    /\ action_list[k] = Trade(open_type, policy_config.trade_amount, NoMaturity)

\* C22: with fixed_rate >= high_fixed_rate_thresh the list has a CLOSE_SHORT
\* for every short followed by one OPEN_LONG for trade_amount, and there is
\* no OPEN_LONG otherwise; with fixed_rate <= low_fixed_rate_thresh it has a
\* CLOSE_LONG for every long followed by one OPEN_SHORT for trade_amount, and
\* there is no OPEN_SHORT otherwise; a rate above the low and below the high
\* threshold opens nothing; the second element returned is False
C22_ThresholdRule ==
    action_result.returned =>
        LET rate == interface.fixed_rate
            high == policy_config.high_fixed_rate_thresh
            low == policy_config.low_fixed_rate_thresh
        IN /\ Cardinality(ActionsOfType("OPEN_LONG")) = IF rate >= high THEN 1 ELSE 0
           /\ Cardinality(ActionsOfType("OPEN_SHORT")) = IF rate <= low THEN 1 ELSE 0
           /\ \A k \in ActionsOfType("OPEN_LONG") :
                ClosesThenOpen("CLOSE_SHORT", wallet.shorts, "OPEN_LONG", k)
           /\ \A k \in ActionsOfType("OPEN_SHORT") :
                ClosesThenOpen("CLOSE_LONG", wallet.longs, "OPEN_SHORT", k)
           /\ (low < rate /\ rate < high) =>
                \A i \in DOMAIN action_list :
                    action_list[i].action_type \in {"CLOSE_LONG", "CLOSE_SHORT"}
           /\ action_result.done = FALSE

\* the fixed rate is at the default high threshold and the wallet has two
\* shorts that have not matured: the list is their closes and an OPEN_LONG
C22_Witness ==
    /\ action_result.returned
    /\ interface.fixed_rate = HIGH_FIXED_RATE_THRESH
    /\ policy_config.high_fixed_rate_thresh = HIGH_FIXED_RATE_THRESH
    /\ policy_config.low_fixed_rate_thresh = LOW_FIXED_RATE_THRESH
    /\ MaturityTimes(wallet.shorts) = <<3, 2>>
    /\ Len(wallet.longs) = 1
    /\ action_list = <<Trade("CLOSE_SHORT", wallet.shorts[1].balance, 3),
                       Trade("CLOSE_SHORT", wallet.shorts[2].balance, 2),
                       Trade("OPEN_LONG", TRADE_AMOUNT, NoMaturity)>>

-----------------------------------------------------------------------------
(* elfpy/utils/price.py as tests/utils/test_price_utils.py exercises it.
   Prices and rates are exact fractions [num, den] with den > 0;
   time_remaining is StretchedTime.days in quarters of a year (91.25 days),
   so the time in years is time_remaining / 4. *)

\* the fraction n / d
Fraction(n, d) == [num |-> n, den |-> d]

\* the two fractions are the same number
SameNumber(a, b) == a.num * b.den = b.num * a.den

\* the price arguments, in hundredths: those of test cases 1-9 (lines 190-297)
\* and 0, 0.25 and 0.50
Prices == {Fraction(n, 100) : n \in {-50, 0, 10, 25, 50, 95, 99, 100, 150}}

\* the time_remaining arguments: -3, 0, 3, 6 and 12 months
TimesRemaining == {-1, 0, 1, 2, 4}

\* the apr arguments, in hundredths: those of test cases 1-8 (lines 323-410)
Aprs == {Fraction(n, 100) : n \in {0, 2, 5, 10, 21, 500, 3600}}

\* calc_apr_from_spot_price without the assert on time_remaining
CalcAprNoTimeAssert(p, t) ==
    IF ~(p.num > 0)
    THEN [raised |-> TRUE, value |-> NoNumber]
    ELSE [raised |-> FALSE,
          value |-> IF t > 0 THEN Fraction((p.den - p.num) * 4, p.num * t)
                    ELSE IF t < 0 THEN Fraction((p.num - p.den) * 4, p.num * (0 - t))
                    ELSE NoNumber]

\* price_utils.calc_apr_from_spot_price: asserts price > 0 and
\* normalized_time_remaining > 0, returns (1 - price) / (price * t / 4)
calc_apr_from_spot_price(p, t) ==
    IF ~(p.num > 0) \/ ~(t > 0)
    THEN [raised |-> TRUE, value |-> NoNumber]
    ELSE [raised |-> FALSE, value |-> Fraction((p.den - p.num) * 4, p.num * t)]

\* calc_spot_price_from_apr as the simple discount 1 - apr * t / 4
CalcSpotPriceDiscount(a, t) == Fraction(4 * a.den - a.num * t, 4 * a.den)

\* price_utils.calc_spot_price_from_apr: 1 / (1 + apr * t / 4)
calc_spot_price_from_apr(a, t) == Fraction(4 * a.den, 4 * a.den + a.num * t)

\* a test is about to call calc_apr_from_spot_price with a price, or
\* calc_spot_price_from_apr with an apr
InitPrice ==
    /\ MainIdle
    /\ PolicyIdle
    /\ CheckpointIdle
    /\ price_err = ""
    /\ spot_price = NoNumber
    /\ \/ /\ price_pc = "calc_apr"
          /\ price \in Prices
          /\ time_remaining \in TimesRemaining
          /\ apr = NoNumber
       \/ /\ price_pc = "calc_spot"
          /\ price = NoNumber
          /\ time_remaining \in {t \in TimesRemaining : t >= 0}
          /\ apr \in Aprs

\* lines 301-315: the call of calc_apr_from_spot_price
CalcAprFromSpotPrice ==
    /\ price_pc = "calc_apr"
    /\ LET result == calc_apr_from_spot_price(price, time_remaining)
       IN IF result.raised
          THEN /\ price_err' = "AssertionError"
               /\ price_pc' = "raised"
               /\ UNCHANGED apr
          ELSE /\ apr' = result.value
               /\ price_pc' = "calc_spot_back"
               /\ UNCHANGED price_err
    /\ UNCHANGED <<price, time_remaining, spot_price>>
    /\ UNCHANGED outside_price

\* lines 413-418: the call of calc_spot_price_from_apr, with an apr of the
\* test cases or with the apr calc_apr_from_spot_price returned
CalcSpotPriceFromApr ==
    /\ price_pc \in {"calc_spot", "calc_spot_back"}
    /\ spot_price' = calc_spot_price_from_apr(apr, time_remaining)
    /\ price_pc' = IF price_pc = "calc_spot" THEN "returned" ELSE "returned_back"
    /\ UNCHANGED <<price, time_remaining, apr, price_err>>
    /\ UNCHANGED outside_price

NextPrice ==
    \/ CalcAprFromSpotPrice
    \/ CalcSpotPriceFromApr

SpecPrice == InitPrice /\ [][NextPrice]_vars

\* floor(n * 10^k / d) and the remainder, for n >= 0 and d > 0, by long division
RECURSIVE LongDivision(_, _, _)
LongDivision(n, d, k) ==
    IF k = 0 THEN <<n \div d, n % d>>
    ELSE LET before == LongDivision(n, d, k - 1)
         IN <<before[1] * 10 + (before[2] * 10) \div d, (before[2] * 10) % d>>

\* the fraction in units of 10^-7, cut after the seventh decimal
Decimals7(f) ==
    IF f.num >= 0 THEN LongDivision(f.num, f.den, 7)[1]
    ELSE 0 - LongDivision(0 - f.num, f.den, 7)[1]

\* np.testing.assert_almost_equal (7 decimals) of a result and an expected
\* value given in units of 10^-7
AlmostEqual(f, expected) ==
    LET d == Decimals7(f) - expected
    IN d \in {-1, 0, 1}

\* lines 189-298: the test cases of calc_apr_from_spot_price: price in
\* hundredths, time_remaining in quarters, expected apr in units of 10^-7
AprTestCases ==
    {[price |-> 95, t |-> 2, error |-> FALSE, expected |-> 1052631],
     [price |-> 99, t |-> 2, error |-> FALSE, expected |-> 202020],
     [price |-> 100, t |-> 2, error |-> FALSE, expected |-> 0],
     [price |-> 95, t |-> 1, error |-> FALSE, expected |-> 2105263],
     [price |-> 95, t |-> 4, error |-> FALSE, expected |-> 526315],
     [price |-> 10, t |-> 1, error |-> FALSE, expected |-> 360000000],
     [price |-> -50, t |-> 1, error |-> TRUE, expected |-> 0],
     [price |-> 95, t |-> -1, error |-> TRUE, expected |-> 0],
     [price |-> 150, t |-> 1, error |-> FALSE, expected |-> -13333333]}

\* lines 322-411: the test cases of calc_spot_price_from_apr: apr in
\* hundredths, time_remaining in quarters, expected price in units of 10^-7
SpotPriceTestCases ==
    {[apr |-> 10, t |-> 2, expected |-> 9523809],
     [apr |-> 2, t |-> 2, expected |-> 9900990],
     [apr |-> 0, t |-> 2, expected |-> 10000000],
     [apr |-> 21, t |-> 1, expected |-> 9501187],
     [apr |-> 5, t |-> 4, expected |-> 9523809],
     [apr |-> 3600, t |-> 1, expected |-> 1000000],
     [apr |-> 0, t |-> 1, expected |-> 10000000],
     [apr |-> 500, t |-> 0, expected |-> 10000000]}

\* calc_apr_from_spot_price was called
AprCalled == price_pc \in {"raised", "calc_spot_back", "returned_back"}

\* C23: calc_apr_from_spot_price raises AssertionError and returns no rate
\* for a negative price and for a negative time remaining; for a positive
\* price and a positive time remaining it returns (1 - price) / (price * t),
\* t in years, which is negative exactly when price > 1; the test cases of
\* lines 189-298 get the results they expect
C23_AprFromSpotPrice ==
    AprCalled =>
        /\ (price.num < 0 \/ time_remaining < 0) =>
            /\ price_pc = "raised"
            /\ price_err = "AssertionError"
            /\ apr = NoNumber
        /\ (price.num > 0 /\ time_remaining > 0) =>
            /\ price_pc # "raised"
            /\ price_err = ""
            /\ apr.den > 0
            /\ apr.num * price.num * time_remaining
                    = (price.den - price.num) * apr.den * 4
            /\ apr.num < 0 <=> price.num > price.den
        /\ \A c \in AprTestCases :
            (price = Fraction(c.price, 100) /\ time_remaining = c.t) =>
                IF c.error THEN price_err = "AssertionError"
                ELSE price_pc # "raised" /\ AlmostEqual(apr, c.expected)

\* test case 8: a price of 0.95 with -3 months remaining raised AssertionError
C23_Witness ==
    /\ price_pc = "raised"
    /\ price_err = "AssertionError"
    /\ price = Fraction(95, 100)
    /\ time_remaining = -1

\* calc_spot_price_from_apr has returned
SpotPriceReturned == price_pc \in {"returned", "returned_back"}

\* C24: calc_spot_price_from_apr returns 1 / (1 + apr * t), t in years: 1
\* when apr = 0 or no time remains; given the apr calc_apr_from_spot_price
\* returned for a price > 0 and t > 0 it returns that price (a price of 0.10
\* at 3 months gives an apr of 36, and back); the test cases of lines
\* 322-411 get the results they expect
C24_SpotPriceFromApr ==
    /\ SpotPriceReturned =>
        /\ spot_price.den > 0
        /\ spot_price.num * (4 * apr.den + apr.num * time_remaining)
                = spot_price.den * 4 * apr.den
        /\ (apr.num = 0 \/ time_remaining = 0) => SameNumber(spot_price, Fraction(1, 1))
    /\ price_pc = "returned_back" =>
        /\ price.num > 0 /\ time_remaining > 0
        /\ SameNumber(spot_price, price)
    /\ (AprCalled /\ price = Fraction(10, 100) /\ time_remaining = 1) =>
            SameNumber(apr, Fraction(36, 1))
    /\ price_pc = "returned" =>
        \A c \in SpotPriceTestCases :
            (apr = Fraction(c.apr, 100) /\ time_remaining = c.t) =>
                AlmostEqual(spot_price, c.expected)

\* a price of 0.10 at 3 months gave an apr of 36, and that apr the price 0.10
C24_Witness ==
    /\ price_pc = "returned_back"
    /\ price = Fraction(10, 100)
    /\ time_remaining = 1
    /\ SameNumber(apr, Fraction(36, 1))
    /\ SameNumber(spot_price, Fraction(1, 10))

-----------------------------------------------------------------------------

\* the step is a call of get_block_pool_info in the loop that raised ValueError
RetryStep == pc = "get" /\ failures' = failures + 1

\* C25: every time get_block_pool_info raises ValueError for a block of the
\* loop, main stays at the call for the same block: it does not read the
\* latest block again, writes nothing to the store or to a file, goes to no
\* other block and does not skip the block; it logs the warning and calls
\* again, however many ValueErrors came before, and it leaves the block only
\* with the PoolInfo a call returned
C25_RetriesSameBlock ==
    /\ [][RetryStep =>
            /\ pc' = "get"
            /\ trace' = trace \o <<<<"state_err", block_number>>,
                                   <<"warn_retry", block_number>>>>
            /\ UNCHANGED <<block_number, block_int, latest_block_number,
                           block_pool_info, pool_info, transaction_info, store,
                           config_file, pool_info_file, transaction_info_file,
                           err>>]_vars
    /\ [][(pc = "get" /\ pc' # "get") =>
            /\ pc' = "store"
            /\ block_number' = block_number
            /\ block_pool_info'.blockNumber = block_number
            /\ trace'[Len(trace')][1] \in {"state", "state_falsy"}]_vars
    /\ [](pc = "get" =>
            /\ block_number \notin SkippedBlocks
            /\ latest_block_number - block_number <= lookback_block_limit
            /\ <<"state", block_number>> \notin Range(trace))

\* get_block_pool_info has raised ValueError for the block of the loop as
\* often as the model lets it, in a tick with a block before and a block
\* after this one, and main is at the call for that block again
C25_Witness ==
    /\ pc = "get"
    /\ failures = MaxFailures
    /\ Count(Blocks(trace, "state_err"), block_number) = MaxFailures
    /\ trace[Len(trace)] = <<"warn_retry", block_number>>
    /\ <<"tx", block_number - 1>> \in Range(trace)
    /\ latest_block_number > block_number
    /\ block_number \notin Range(BlockNumbers(store))

\* C26: block_number never decreases over a run, and (lookback_block_limit
\* is not negative) a tick that read a latest block above block_number never
\* skips the latest block itself: it reads it, fetches its transactions and
\* ends with block_number at the latest block, also when it skipped blocks
\* before it
C26_CursorMovesForward ==
    /\ [][block_number' >= block_number]_vars
    /\ [](lookback_block_limit >= 0 =>
            /\ \A i \in DOMAIN trace :
                trace[i][1] = "warn_skip" => trace[i][2] < trace[i][3]
            /\ Flushing =>
                /\ block_number = latest_block_number
                /\ latest_block_number \notin SkippedBlocks
                /\ latest_block_number \in ReadBlocks
                /\ <<"tx", latest_block_number>> \in Range(trace))

\* a tick that skipped two blocks has been through the latest block and is
\* about to write the snapshots, block_number at the latest block
C26_Witness ==
    /\ pc = "file_pool"
    /\ lookback_block_limit >= 0
    /\ block_number = latest_block_number
    /\ <<"warn_skip", latest_block_number - lookback_block_limit - 1,
         latest_block_number>> \in Range(trace)
    /\ <<"warn_skip", latest_block_number - lookback_block_limit - 2,
         latest_block_number>> \in Range(trace)
    /\ trace[Len(trace)] = <<"tx", latest_block_number>>

\* block_number when the tick that is running (or the last one) began: the
\* block the tick before ended at, or the starting block
TickStart ==
    LET flushed == Blocks(trace, "file_tx")
    IN IF flushed = <<>> THEN StartingBlock ELSE flushed[Len(flushed)]

\* the blocks of the range of the tick whose for loop is through
TickRange == (TickStart + 1)..latest_block_number

\* a tick that read a latest block above block_number is running
InTick == pc \in {"for", "get", "store", "append", "tx", "file_pool", "file_tx"}

\* C27: the blocks a tick reads are the range from
\* max(block_number + 1, latest - lookback_block_limit) to latest and the
\* blocks it skips are those before, with block_number and latest as they
\* were when the tick began: none when latest - block_number is at most
\* lookback_block_limit + 1, the one block block_number + 1 when it is
\* lookback_block_limit + 2; the latest block is not read again before the
\* tick has written its snapshots
C27_TickWindow ==
    /\ [](pc = "file_pool" =>
            /\ ReadBlocks \cap TickRange =
                    Max(TickStart + 1, latest_block_number - lookback_block_limit)
                        ..latest_block_number
            /\ SkippedBlocks \cap TickRange =
                    (TickStart + 1)
                        ..(latest_block_number - lookback_block_limit - 1)
            /\ latest_block_number - TickStart <= lookback_block_limit + 1
                    => SkippedBlocks \cap TickRange = {}
            /\ latest_block_number - TickStart = lookback_block_limit + 2
                    => SkippedBlocks \cap TickRange = {TickStart + 1}
            /\ \A i \in DOMAIN trace :
                (trace[i][1] = "warn_skip" /\ trace[i][2] \in TickRange)
                    => trace[i][3] = latest_block_number)
    /\ [][InTick => latest_block_number' = latest_block_number]_vars

\* the second tick read the latest block lookback_block_limit + 2 above
\* block_number and its for loop is through: it skipped the first block of
\* its range and read the others
C27_Witness ==
    /\ pc = "file_pool"
    /\ Blocks(trace, "file_tx") # <<>>
    /\ latest_block_number - TickStart = lookback_block_limit + 2
    /\ SkippedBlocks = {TickStart + 1}
    /\ ReadBlocks \cap TickRange = (TickStart + 2)..latest_block_number
    /\ lookback_block_limit > 0

\* the startup of main is through (line 70 was reached)
StartupDone == pc \notin {"config", "start", "init_get", "init_file", "init_store"}
                /\ pool_info # <<>>

\* C28: fetch_transactions_for_block is never called for the block main
\* starts at: that block gets its PoolInfo, in the snapshot and in the store
\* from the startup on, and no transactions; every record of
\* transaction_info is of a block after the starting block, and there is no
\* transaction snapshot before the first tick that read a latest block above
\* block_number has written one
C28_NoTransactionsForStartingBlock ==
    pool_info # <<>> =>
        /\ <<"tx", StartingBlock>> \notin Range(trace)
        /\ \A b \in BlockSet(trace, "tx") \cup TransactionBlocks : b > StartingBlock
        /\ \A i \in DOMAIN transaction_info_file.data :
                transaction_info_file.data[i].blockNumber > StartingBlock
        /\ StartupDone =>
            /\ pool_info[1].blockNumber = StartingBlock
            /\ StartingBlock \in ReadBlocks
            /\ StartingBlock \in FileBlocks
            /\ (err # "StoreError" \/ StoreErrBlocks # {})
                    => StartingBlock \in Range(BlockNumbers(store))
        /\ transaction_info_file.exists <=> Blocks(trace, "file_tx") # <<>>
        /\ transaction_info_file.exists =>
            /\ Blocks(trace, "file_tx")[1] > StartingBlock
            /\ ReadBlocks \cup SkippedBlocks # {StartingBlock}

\* the first tick with new blocks has written a transaction snapshot with
\* records in it, none of them of the starting block
C28_Witness ==
    /\ pc = "sleep"
    /\ Len(Blocks(trace, "file_tx")) = 1
    /\ transaction_info_file.exists
    /\ transaction_info_file.data # <<>>
    /\ StartingBlock \in FileBlocks
    /\ StartingBlock \notin TransactionBlocks
    /\ StartingBlock > 0

\* C29: when get_block_pool_info returns a falsy PoolInfo for a block of the
\* loop, nothing is handed to the store or appended to pool_info for the
\* block, its transactions are fetched and put in transaction_info all the
\* same, and block_number goes on past it: the block is read once, never
\* again, and stays out of the store, of pool_info and of the snapshot
C29_FalsyPoolInfo ==
    pool_info # <<>> =>
        \A b \in FalsyLoopBlocks :
            /\ Count(Blocks(trace, "state_falsy"), b) = 1
            /\ <<"state", b>> \notin Range(trace)
            /\ b \notin Range(StoreWrites)
            /\ <<"store_err", b>> \notin Range(trace)
            /\ b \notin Range(BlockNumbers(store))
            /\ b \notin Range(BlockNumbers(pool_info))
            /\ b \notin FileBlocks
            /\ block_number >= b
            /\ \/ /\ block_number = b
                  /\ pc \in {"store", "tx"}
                  /\ ~block_pool_info.truthy
                  /\ <<"tx", b>> \notin Range(trace)
               \/ /\ Count(Blocks(trace, "tx"), b) = 1
                  /\ Position("tx", b) > Position("state_falsy", b)
                  /\ TransactionsOf(b) \in {Transactions(b, n) : n \in TxCounts(b)}

\* the PoolInfo of a block of the loop was falsy: its two transactions are
\* in the transaction snapshot, the tick went on to the block after it, and
\* the pool info snapshot has that block and not the falsy one
C29_Witness ==
    /\ pc = "sleep"
    /\ \E b \in FalsyLoopBlocks :
        /\ Len(TransactionsOf(b)) = 2
        /\ \A i \in DOMAIN TransactionsOf(b) :
                TransactionsOf(b)[i] \in Range(transaction_info_file.data)
        /\ b \notin FileBlocks
        /\ b + 1 \in FileBlocks
        /\ b - 1 \in FileBlocks
        /\ block_number = b + 1

\* C30: a PoolInfo the loop appends to pool_info was handed to the store
\* before: in every state every record of pool_info but the first is in the
\* store; the record of the starting block is the only one that is in a
\* snapshot before it is handed to the store, at startup
C30_StoreBeforeAppend ==
    pool_info # <<>> =>
        /\ \A i \in DOMAIN pool_info :
            i > 1 => /\ pool_info[i].blockNumber \in Range(StoreWrites)
                     /\ pool_info[i] \in Range(store)
        /\ pc = "append" =>
            /\ block_pool_info \in Range(store)
            /\ block_pool_info \notin Range(pool_info)
        /\ FileBlocks \ Range(BlockNumbers(store)) \subseteq {StartingBlock}
        /\ (StartingBlock \in FileBlocks
                /\ StartingBlock \notin Range(BlockNumbers(store)))
            => \/ pc = "init_store"
               \/ pc = "exited" /\ err = "StoreError" /\ Len(pool_info) = 1
        /\ <<"store", StartingBlock>> \in Range(trace) =>
                Position("file_pool", StartingBlock) < Position("store", StartingBlock)
        /\ \A b \in FileBlocks \ {StartingBlock} :
            /\ b \in Range(StoreWrites)
            /\ LET stored == Position("store", b)
               IN \A j \in DOMAIN trace :
                    (trace[j][1] = "file_pool" /\ trace[j][2] >= b) => stored < j

\* the loop has appended the PoolInfo of a block after handing it to the
\* store and before any snapshot has it; the record of the starting block
\* went to the snapshot first and to the store after
C30_Witness ==
    /\ pc = "tx"
    /\ block_pool_info.truthy
    /\ pool_info[Len(pool_info)] = block_pool_info
    /\ Len(pool_info) = 3
    /\ block_pool_info \in Range(store)
    /\ block_number \notin FileBlocks
    /\ Position("file_pool", StartingBlock) < Position("store", StartingBlock)
    /\ Position("store", block_number) = Len(trace)

----------------------------------------------------------------------------
(* agent0/bin/checkpoint_bot.py: the checkpoint bot *)

\* highest timestamp the chain's latest block reaches
MaxTime == 8
\* polls of the checkpoint bot
MaxPolls == 3

\* line 27: 0.5, as a fraction
CHECKPOINT_WAITING_PERIOD == Fraction(1, 2)

\* the sharePrice of a checkpoint that was minted (lines 32-34); a checkpoint
\* that was not minted has sharePrice 0
MintedSharePrice == 1

\* config["checkpointDuration"] (line 105), in seconds
CheckpointDurations == {2, 3, 4}

\* BLOCK_TIME (lines 63-67)
BlockTimeSettings == {1, 2}

\* BLOCK_TIMESTAMP_INTERVAL (lines 69-73)
BlockTimestampIntervals == {0, 1, 4}

\* timestamp of the latest block when the bot starts
StartTimes == 0..3

\* seconds the chain may have advanced when the bot wakes up
Advances(duration) == 0..(2 * duration)

\* f * n, n - f, 1 + f and n >= f for a fraction f with f.den > 0 and an
\* integer n, as python computes them on floats that hold halves exactly
Times(f, n) == Fraction(f.num * n, f.den)
Minus(f, n) == Fraction(f.num - n * f.den, f.den)
OnePlus(f) == Fraction(f.den + f.num, f.den)
AtLeast(n, f) == n * f.den >= f.num

\* the hyperdrive contract with no checkpoint minted
NoCheckpoints == [t \in 0..MaxTime |-> [sharePrice |-> 0]]

\* the contract's checkpoint(time): the checkpoint exists afterwards
Mint(contract, time) ==
    [contract EXCEPT ![time] = [sharePrice |-> MintedSharePrice]]

\* the checkpoint a timestamp falls in (line 124)
CheckpointTime(time, duration) == time - (time % duration)

\* lines 30-34
DoesCheckpointExistGe(contract, time) == contract[time].sharePrice >= 0
does_checkpoint_exist(contract, time) == contract[time].sharePrice > 0

\* line 125 and line 158: the waiting period of the checkpoint has passed
WaitingPeriodOverGt(elapsed, duration) ==
    ~AtLeast(0 - elapsed, Times(CHECKPOINT_WAITING_PERIOD, 0 - duration))
WaitingPeriodOver(elapsed, duration) ==
    AtLeast(elapsed, Times(CHECKPOINT_WAITING_PERIOD, duration))

\* line 138
ShouldSubmit == need_checkpoint /\ checkpoint_doesnt_exist

\* lines 158-161
SleepFullPeriod(elapsed, duration) == Fraction(duration, 1)
SleepDuration(elapsed, duration) ==
    IF WaitingPeriodOver(elapsed, duration)
    THEN Minus(Times(OnePlus(CHECKPOINT_WAITING_PERIOD), duration), elapsed)
    ELSE Minus(Times(CHECKPOINT_WAITING_PERIOD, duration), elapsed)

\* line 163: sleep / (interval / time); python raises ZeroDivisionError when
\* it divides by zero
AdjustedSleepDuration(sleep, interval, time) ==
    IF time = 0 \/ interval = 0
    THEN [raised |-> TRUE, value |-> NoNumber]
    ELSE [raised |-> FALSE, value |-> Fraction(sleep.num * time, sleep.den * interval)]

\* lines 58-112: the bot has read its environment and the pool config and is
\* about to poll; nobody, or somebody else, minted the current checkpoint
BotStarted ==
    /\ MainIdle
    /\ PolicyIdle
    /\ PriceIdle
    /\ bot_pc = "poll"
    /\ bot_err = ""
    /\ chain_time \in StartTimes
    /\ block_time \in BlockTimeSettings
    /\ timestamp = 0
    /\ checkpoint_portion_elapsed = 0
    /\ checkpoint_time = 0
    /\ need_checkpoint = FALSE
    /\ checkpoint_doesnt_exist = FALSE
    /\ sleep_duration = NoNumber
    /\ adjusted_sleep_duration = NoNumber
    /\ submitted = <<>>
    /\ polls = <<>>

InitCheckpoint ==
    /\ BotStarted
    /\ checkpoint_duration \in CheckpointDurations
    /\ block_timestamp_interval \in BlockTimestampIntervals
    /\ hyperdrive_contract \in
           {NoCheckpoints,
            Mint(NoCheckpoints, CheckpointTime(chain_time, checkpoint_duration))}

\* lines 119-136: the latest block's timestamp and what follows from it
GetBlock ==
    /\ bot_pc = "poll"
    /\ Len(polls) < MaxPolls
    /\ timestamp' = chain_time
    /\ checkpoint_portion_elapsed' = chain_time % checkpoint_duration
    /\ checkpoint_time' = CheckpointTime(chain_time, checkpoint_duration)
    /\ need_checkpoint' =
           WaitingPeriodOver(chain_time % checkpoint_duration, checkpoint_duration)
    /\ checkpoint_doesnt_exist' =
           ~does_checkpoint_exist(hyperdrive_contract,
                                  CheckpointTime(chain_time, checkpoint_duration))
    /\ polls' = Append(polls, chain_time)
    /\ bot_pc' = "submit"
    /\ UNCHANGED <<bot_err, chain_time, hyperdrive_contract, checkpoint_duration,
                   block_time, block_timestamp_interval, sleep_duration,
                   adjusted_sleep_duration, submitted>>
    /\ UNCHANGED outside_checkpoint

\* lines 121-122: the latest block has no timestamp
GetBlockNoTimestamp ==
    /\ bot_pc = "poll"
    /\ bot_err' = "AssertionError"
    /\ bot_pc' = "raised"
    /\ UNCHANGED <<chain_time, hyperdrive_contract, checkpoint_duration,
                   block_time, block_timestamp_interval, timestamp,
                   checkpoint_portion_elapsed, checkpoint_time, need_checkpoint,
                   checkpoint_doesnt_exist, sleep_duration,
                   adjusted_sleep_duration, submitted, polls>>
    /\ UNCHANGED outside_checkpoint

\* lines 138-154: the checkpoint transaction is sent and mined
SubmitCheckpoint ==
    /\ bot_pc = "submit"
    /\ ShouldSubmit
    /\ submitted' = Append(submitted, checkpoint_time)
    /\ hyperdrive_contract' = Mint(hyperdrive_contract, checkpoint_time)
    /\ bot_pc' = "compute_sleep"
    /\ UNCHANGED <<bot_err, chain_time, checkpoint_duration, block_time,
                   block_timestamp_interval, timestamp,
                   checkpoint_portion_elapsed, checkpoint_time, need_checkpoint,
                   checkpoint_doesnt_exist, sleep_duration,
                   adjusted_sleep_duration, polls>>
    /\ UNCHANGED outside_checkpoint

\* lines 144-150: smart_contract_transact raises and nothing catches it
SubmitCheckpointFails ==
    /\ bot_pc = "submit"
    /\ ShouldSubmit
    /\ submitted' = Append(submitted, checkpoint_time)
    /\ bot_err' = "transaction failed"
    /\ bot_pc' = "raised"
    /\ UNCHANGED <<chain_time, hyperdrive_contract, checkpoint_duration,
                   block_time, block_timestamp_interval, timestamp,
                   checkpoint_portion_elapsed, checkpoint_time, need_checkpoint,
                   checkpoint_doesnt_exist, sleep_duration,
                   adjusted_sleep_duration, polls>>
    /\ UNCHANGED outside_checkpoint

\* line 138: the condition is false, nothing is sent
NoCheckpoint ==
    /\ bot_pc = "submit"
    /\ ~ShouldSubmit
    /\ bot_pc' = "compute_sleep"
    /\ UNCHANGED <<bot_err, chain_time, hyperdrive_contract, checkpoint_duration,
                   block_time, block_timestamp_interval, timestamp,
                   checkpoint_portion_elapsed, checkpoint_time, need_checkpoint,
                   checkpoint_doesnt_exist, sleep_duration,
                   adjusted_sleep_duration, submitted, polls>>
    /\ UNCHANGED outside_checkpoint

\* lines 156-168
ComputeSleep ==
    /\ bot_pc = "compute_sleep"
    /\ sleep_duration' = SleepDuration(checkpoint_portion_elapsed, checkpoint_duration)
    /\ LET adjusted == AdjustedSleepDuration(sleep_duration',
                                             block_timestamp_interval, block_time)
       IN IF adjusted.raised
          THEN /\ bot_err' = "ZeroDivisionError"
               /\ bot_pc' = "raised"
               /\ UNCHANGED adjusted_sleep_duration
          ELSE /\ adjusted_sleep_duration' = adjusted.value
               /\ bot_pc' = "sleeping"
               /\ UNCHANGED bot_err
    /\ UNCHANGED <<chain_time, hyperdrive_contract, checkpoint_duration,
                   block_time, block_timestamp_interval, timestamp,
                   checkpoint_portion_elapsed, checkpoint_time, need_checkpoint,
                   checkpoint_doesnt_exist, submitted, polls>>
    /\ UNCHANGED outside_checkpoint

\* line 169: the bot sleeps, the chain goes on by some number of seconds
Sleep169 ==
    /\ bot_pc = "sleeping"
    /\ \E seconds \in Advances(checkpoint_duration) :
          /\ chain_time + seconds <= MaxTime
          /\ chain_time' = chain_time + seconds
    /\ bot_pc' = "poll"
    /\ UNCHANGED <<bot_err, hyperdrive_contract, checkpoint_duration, block_time,
                   block_timestamp_interval, timestamp,
                   checkpoint_portion_elapsed, checkpoint_time, need_checkpoint,
                   checkpoint_doesnt_exist, sleep_duration,
                   adjusted_sleep_duration, submitted, polls>>
    /\ UNCHANGED outside_checkpoint

\* somebody else's transaction mints the checkpoint of the current period
OthersCheckpoint ==
    /\ bot_pc \in {"poll", "submit", "compute_sleep", "sleeping"}
    /\ LET current == CheckpointTime(chain_time, checkpoint_duration)
       IN /\ ~does_checkpoint_exist(hyperdrive_contract, current)
          /\ hyperdrive_contract' = Mint(hyperdrive_contract, current)
    /\ UNCHANGED <<bot_pc, bot_err, chain_time, checkpoint_duration, block_time,
                   block_timestamp_interval, timestamp,
                   checkpoint_portion_elapsed, checkpoint_time, need_checkpoint,
                   checkpoint_doesnt_exist, sleep_duration,
                   adjusted_sleep_duration, submitted, polls>>
    /\ UNCHANGED outside_checkpoint

NextCheckpoint ==
    \/ GetBlock
    \/ GetBlockNoTimestamp
    \/ SubmitCheckpoint
    \/ SubmitCheckpointFails
    \/ NoCheckpoint
    \/ ComputeSleep
    \/ Sleep169
    \/ OthersCheckpoint

SpecCheckpoint == InitCheckpoint /\ [][NextCheckpoint]_vars

----------------------------------------------------------------------------
(* Claims about the checkpoint bot *)

\* the poll read the latest block and the checkpoint (lines 119-126)
PollStep == bot_pc = "poll" /\ bot_pc' = "submit"

\* the poll went past line 138, with or without a transaction
DecisionStep == bot_pc = "submit" /\ bot_pc' # "submit"

\* the bot sent a checkpoint transaction
SubmitStep == submitted' # submitted

\* C31: in a poll the bot sends a checkpoint transaction if and only if at
\* least half of the checkpoint duration has passed (timestamp mod
\* checkpoint_duration >= 0.5 * checkpoint_duration) and the checkpoint it read
\* at checkpoint_time has sharePrice 0; checkpoint_time is the greatest
\* multiple of checkpoint_duration that is <= the timestamp; no transaction is
\* sent in the first half of a checkpoint, nor for a checkpoint the poll read
\* as existing, nor outside a poll.
C31_SubmissionRule ==
    /\ [][PollStep =>
            /\ timestamp' = chain_time
            /\ checkpoint_time' % checkpoint_duration = 0
            /\ checkpoint_time' <= timestamp'
            /\ timestamp' < checkpoint_time' + checkpoint_duration
            /\ need_checkpoint' =
                   (2 * (timestamp' % checkpoint_duration) >= checkpoint_duration)
            /\ checkpoint_doesnt_exist' =
                   (hyperdrive_contract[checkpoint_time'].sharePrice = 0)]_vars
    /\ [][DecisionStep =>
            /\ SubmitStep <=> (need_checkpoint /\ checkpoint_doesnt_exist)
            /\ SubmitStep => submitted' = Append(submitted, checkpoint_time)]_vars
    /\ [][SubmitStep =>
            /\ DecisionStep
            /\ 2 * (timestamp % checkpoint_duration) >= checkpoint_duration
            /\ checkpoint_doesnt_exist]_vars

\* the bot polled exactly at the half of a checkpoint nobody had minted and
\* sent the transaction for it
C31_Witness ==
    /\ bot_pc = "compute_sleep"
    /\ 2 * checkpoint_portion_elapsed = checkpoint_duration
    /\ Len(submitted) = 1
    /\ submitted[1] = checkpoint_time
    /\ checkpoint_time > 0

\* the bot computed how long to sleep (lines 158-161)
SleepComputed == bot_pc = "sleeping" \/ bot_err = "ZeroDivisionError"

\* twice the half-way point the bot means to wake up at: that of the current
\* checkpoint when less than half of it has passed, else that of the next
TwiceHalfWay ==
    IF 2 * (timestamp % checkpoint_duration) < checkpoint_duration
    THEN 2 * (timestamp - (timestamp % checkpoint_duration)) + checkpoint_duration
    ELSE 2 * (timestamp - (timestamp % checkpoint_duration)) + 3 * checkpoint_duration

\* C32: for every timestamp and positive checkpoint_duration the unadjusted
\* sleep_duration is strictly positive and at most checkpoint_duration, and
\* timestamp + sleep_duration is exactly checkpoint_time + 0.5 *
\* checkpoint_duration when less than half of the checkpoint has passed and
\* checkpoint_time + 1.5 * checkpoint_duration otherwise; the time actually
\* slept is sleep_duration divided by (block_timestamp_interval / block_time).
C32_SleepAlignment ==
    /\ SleepComputed =>
          /\ sleep_duration.den > 0
          /\ sleep_duration.num > 0
          /\ sleep_duration.num <= checkpoint_duration * sleep_duration.den
          /\ 2 * (timestamp * sleep_duration.den + sleep_duration.num)
                 = TwiceHalfWay * sleep_duration.den
    /\ bot_pc = "sleeping" =>
          /\ adjusted_sleep_duration.den # 0
          /\ adjusted_sleep_duration.num * block_timestamp_interval
                 * sleep_duration.den
                 = sleep_duration.num * block_time * adjusted_sleep_duration.den

\* the bot polled in the second half of a checkpoint of 3 seconds and sleeps
\* 2.5 seconds of chain time, which are 0.625 seconds at 4 chain seconds per
\* real second
C32_Witness ==
    /\ bot_pc = "sleeping"
    /\ checkpoint_duration = 3
    /\ checkpoint_portion_elapsed = 2
    /\ block_timestamp_interval = 4
    /\ block_time = 1
    /\ SameNumber(sleep_duration, Fraction(5, 2))
    /\ SameNumber(adjusted_sleep_duration, Fraction(5, 8))

----------------------------------------------------------------------------
(* The checkpoint bot on a chain whose clock follows the bot's sleep *)

\* durations whose half is a whole number of seconds, so that a block's
\* timestamp can be exactly sleep_duration later
EvenCheckpointDurations == {d \in CheckpointDurations : d % 2 = 0}

\* speedup factors line 163 can divide by
RunningIntervals == {i \in BlockTimestampIntervals : i # 0}

InitCheckpointExact ==
    /\ BotStarted
    /\ checkpoint_duration \in EvenCheckpointDurations
    /\ block_timestamp_interval \in RunningIntervals
    /\ hyperdrive_contract \in
           {NoCheckpoints,
            Mint(NoCheckpoints, CheckpointTime(chain_time, checkpoint_duration))}

\* line 169: the bot sleeps and the chain goes on by exactly sleep_duration
SleepExactly ==
    /\ bot_pc = "sleeping"
    /\ sleep_duration.num % sleep_duration.den = 0
    /\ chain_time + sleep_duration.num \div sleep_duration.den <= MaxTime
    /\ chain_time' = chain_time + sleep_duration.num \div sleep_duration.den
    /\ bot_pc' = "poll"
    /\ UNCHANGED <<bot_err, hyperdrive_contract, checkpoint_duration, block_time,
                   block_timestamp_interval, timestamp,
                   checkpoint_portion_elapsed, checkpoint_time, need_checkpoint,
                   checkpoint_doesnt_exist, sleep_duration,
                   adjusted_sleep_duration, submitted, polls>>
    /\ UNCHANGED outside_checkpoint

NextCheckpointExact ==
    \/ GetBlock
    \/ SubmitCheckpoint
    \/ NoCheckpoint
    \/ ComputeSleep
    \/ SleepExactly
    \/ OthersCheckpoint

\* the loop of lines 114-169 keeps running
SpecCheckpointExact ==
    InitCheckpointExact /\ [][NextCheckpointExact]_vars
    /\ WF_vars(NextCheckpointExact)

\* polls whose line 138 was passed
Decided == IF bot_pc \in {"compute_sleep", "sleeping"}
           THEN Len(polls)
           ELSE Len(polls) - 1

\* the model's horizon: all polls made, or the next wake-up is past MaxTime
Horizon ==
    \/ bot_pc = "poll" /\ Len(polls) = MaxPolls
    \/ /\ bot_pc = "sleeping"
       /\ chain_time * sleep_duration.den + sleep_duration.num
              > MaxTime * sleep_duration.den

\* C33: when the chain's time advances by exactly sleep_duration between polls
\* and a submitted checkpoint exists afterwards, the second poll is at the
\* first half-way point after the first poll, every later poll is at the
\* half-way point of the next checkpoint period, so that every period is
\* polled exactly once; after such a poll the period's checkpoint exists
\* (minted by the bot unless it existed); no checkpoint_time is submitted
\* twice; and the bot goes on polling up to the horizon.
C33_Coverage ==
    /\ [](\A i \in 2..Len(polls) :
             /\ 2 * (polls[i] % checkpoint_duration) = checkpoint_duration
             /\ polls[i] > polls[i - 1]
             /\ i = 2 => polls[i] - polls[i - 1] <= checkpoint_duration
             /\ i > 2 => polls[i] = polls[i - 1] + checkpoint_duration)
    /\ [](\A i \in 1..Decided :
             2 * (polls[i] % checkpoint_duration) >= checkpoint_duration
             => does_checkpoint_exist(hyperdrive_contract,
                    polls[i] - (polls[i] % checkpoint_duration)))
    /\ [](\A i, j \in 1..Len(submitted) : submitted[i] = submitted[j] => i = j)
    /\ <>Horizon

\* the bot started in the first half of a checkpoint, polled again at its
\* half and at the half of the next one, and submitted both checkpoints
C33_Witness ==
    /\ bot_pc = "compute_sleep"
    /\ Len(polls) = 3
    /\ 2 * (polls[1] % checkpoint_duration) < checkpoint_duration
    /\ Len(submitted) = 2
    /\ submitted[2] = submitted[1] + checkpoint_duration

----------------------------------------------------------------------------
(* ArbitragePolicy.action: closes per position *)

\* the places of the list with a close of this type for this maturity_time
ClosesOf(close_type, maturity_time) ==
    {i \in ActionsOfType(close_type) : action_list[i].maturity_time = maturity_time}

\* C34: for every wallet, block time and fixed rate the list action returns
\* has at most one CLOSE_LONG per long maturity_time and at most one
\* CLOSE_SHORT per short maturity_time, also when a position is matured and
\* the fixed rate is beyond a threshold at the same time
C34_NoDoubleClose ==
    action_result.returned =>
        /\ \A i \in DOMAIN wallet.longs :
              Cardinality(ClosesOf("CLOSE_LONG", wallet.longs[i].maturity_time)) <= 1
        /\ \A i \in DOMAIN wallet.shorts :
              Cardinality(ClosesOf("CLOSE_SHORT", wallet.shorts[i].maturity_time)) <= 1

====
